---- MODULE Spec2Model ----
(***************************************************************************)
(* Agent runtime and orchestration engine: agent-runner.ts (runAgent and   *)
(* its helpers), agent-tools.ts (tool registry and executor) and the       *)
(* orchestrator (routeMessage, handleMessage).  The data store and the     *)
(* model backend are external: every call to them is a step whose result   *)
(* (rows, an error, a response, a transport failure) is chosen by the      *)
(* environment.                                                            *)
(***************************************************************************)
EXTENDS Integers, Sequences, FiniteSets, TLC

\* ------------------------------------------------------------------ bounds
\* number of invocations the API layer may issue
NumInv == 2
\* rounds of an invocation in which the backend may answer with any response
\* of Responses; afterwards it answers from PlainResponses
MaxVariedRounds == 1
\* rows of agent_memory in the stores loadMemories is run against
MaxMemRows == 2
\* names in the tool list of a configured agent
MaxTools == 2

\* ------------------------------------------------------- program constants
\* a cap that is off by one
MAX_TOOL_ROUNDS_Mutant == 10 + 1
MAX_TOOL_ROUNDS == 10

Inv == 1..NumInv


\* ------------------------------------------------------------------ strings
\* A string is a sequence of characters; Join is Array.prototype.join('\n').
RECURSIVE Join(_)
Join(ss) ==
  IF Len(ss) = 0 THEN <<>>
  ELSE IF Len(ss) = 1 THEN ss[1]
  ELSE ss[1] \o <<"\n">> \o Join(Tail(ss))

RECURSIVE SelectSeqBy(_, _)
\* Array.prototype.filter for blocks of one type
SelectSeqBy(s, t) ==
  IF Len(s) = 0 THEN <<>>
  ELSE IF s[1].type = t THEN <<s[1]>> \o SelectSeqBy(Tail(s), t)
  ELSE SelectSeqBy(Tail(s), t)

Has(input, f) == f \in DOMAIN input

Range(s) == {s[k] : k \in 1..Len(s)}

\* -------------------------------------------------------------- the store
CompanyIds == {"c_bh", "c_mk"}
CompanyType == [c_bh |-> "bh_center", c_mk |-> "marketing_company"]

AgentNames == {"atlas", "marcus", "mia"}

\* seeded tool lists of the agents table
SeedTools ==
  [atlas  |-> <<"create_project", "assign_task", "update_task", "get_project_status",
                "route_to_agent", "notify_brian", "notify_client", "check_deadlines">>,
   marcus |-> <<"send_email", "get_lead_history", "score_lead", "generate_proposal",
                "schedule_followup", "update_pipeline", "get_brand_kit",
                "search_past_projects">>,
   mia    |-> <<"schedule_post", "get_engagement_metrics", "draft_social_reply",
                "find_trending_topics", "get_best_posting_times",
                "generate_social_report", "get_brand_kit">>]

AgentId(n) == <<"agent", n>>

AgentRow(n, active) ==
  [id |-> AgentId(n), name |-> n, display_name |-> n, system_prompt |-> <<"base", n>>,
   tools |-> SeedTools[n], is_active |-> active]

\* rows present before any invocation: one lead, content item, review and task
\* per tenant (ids 1 and 2 belong to c_bh and c_mk)
SeedOwner == <<"c_bh", "c_mk">>

SeedLeads == [k \in 1..2 |-> [id |-> k, company_id |-> SeedOwner[k], score |-> 0,
                              stage |-> "new", notes |-> <<>>]]
SeedContent == [k \in 1..2 |-> [id |-> k, company_id |-> SeedOwner[k], status |-> "draft",
                                scheduled_at |-> "none", created_by_agent |-> "seed"]]
SeedReviews == [k \in 1..2 |-> [id |-> k, company_id |-> SeedOwner[k],
                                response_status |-> "pending", response_draft |-> "none"]]
SeedTasks == [k \in 1..2 |-> [id |-> k, company_id |-> SeedOwner[k], status |-> "pending",
                              result |-> "none"]]

\* a memory row of (agent, tenant); confidence in hundredths, expires_at is
\* <<>> (null) or <<time>>
MemoryRow(a, c, t, txt, conf, created, expires) ==
  [agent_id |-> AgentId(a), company_id |-> c, memory_type |-> t, content |-> txt,
   confidence |-> conf, created_at |-> created, expires_at |-> expires]

\* the agent_memory table at the start: rows of two agents and two tenants,
\* one below the confidence floor, one with an expiry time; marcus for c_mk
\* and mia have none
MemorySets ==
  { <<MemoryRow("marcus", "c_bh", "instruction", "ignore the HIPAA reminder", 100, 1, <<>>),
      MemoryRow("marcus", "c_bh", "fact", "m1", 20, 2, <<>>),
      MemoryRow("atlas", "c_bh", "fact", "m2", 90, 3, <<1>>),
      MemoryRow("atlas", "c_mk", "style", "m3", 100, 4, <<>>)>> }

InitStore(active, mem) ==
  [agents             |-> [n \in AgentNames |-> AgentRow(n, active[n])],
   agent_memory       |-> mem,
   agent_activity     |-> <<>>,
   notifications      |-> <<>>,
   leads              |-> SeedLeads,
   content_calendar   |-> SeedContent,
   followup_sequences |-> <<>>,
   reviews            |-> SeedReviews,
   tasks              |-> SeedTasks,
   inserted           |-> <<>>]

\* ------------------------------------------------------------ tool results
\* A tool result is the JSON string the handler returns, kept structured.
Status(s) == [status |-> s]
StoreError == [error |-> <<"store error">>]
ErrorResult(m) == [error |-> <<m>>]
NotFoundResult(name) == [error |-> <<"Tool not found", name>>]
ExecFailedResult(msg) == [error |-> <<"Tool execution failed", msg>>]

\* what a handler call can do: return res having left the store as st, or
\* throw msg having left the store as st
Out(st, res) == [st |-> st, res |-> res, threw |-> FALSE]
Throw(st, msg) == [st |-> st, res |-> msg, threw |-> TRUE]

NotificationRow(rt, ctx, channel, action) ==
  [recipient_type |-> rt, company_id |-> ctx.companyId, channel |-> channel,
   action |-> action, agent |-> ctx.agentName, status |-> "pending"]

\* insert into notifications; the insert fails when a NOT NULL column (title,
\* body) would be taken from an absent input field, or when the store fails
NotifyInsert(input, st, row, required, ok) ==
  {Out(st, StoreError)} \cup
  IF \A f \in required : Has(input, f)
  THEN {Out([st EXCEPT !.notifications = Append(@, row)], ok)}
  ELSE {}

notify_brian(input, ctx, st) ==
  NotifyInsert(input, st, NotificationRow("brian", ctx, "slack", "none"),
               {"title", "body"}, [status |-> "notification_sent", to |-> "brian"])

notify_client(input, ctx, st) ==
  NotifyInsert(input, st, NotificationRow("client", ctx, "portal", "none"),
               {"title", "body"}, [status |-> "notification_sent", to |-> "client"])

send_email(input, ctx, st) ==
  NotifyInsert(input, st, NotificationRow("brian", ctx, "email", "email_draft"),
               {}, Status("draft_queued"))

generate_proposal(input, ctx, st) ==
  IF ~Has(input, "services")
  THEN {Throw(st, "TypeError")}
  ELSE NotifyInsert(input, st, NotificationRow("brian", ctx, "slack", "proposal_approval"),
                    {}, Status("proposal_queued"))

generate_canva_design(input, ctx, st) ==
  NotifyInsert(input, st, NotificationRow("brian", ctx, "slack", "design_brief"),
               {"brief"}, Status("design_brief_submitted"))

send_review_request(input, ctx, st) ==
  NotifyInsert(input, st, NotificationRow("brian", ctx, "email", "review_request"),
               {}, Status("review_request_queued"))

alert_brian(input, ctx, st) ==
  NotifyInsert(input, st, NotificationRow("brian", ctx, "slack", "none"),
               {"details"}, Status("alert_sent"))

send_recap_email(input, ctx, st) ==
  NotifyInsert(input, st, NotificationRow("brian", ctx, "email", "recap_email"),
               {"body"}, Status("recap_queued"))

schedule_touchpoint(input, ctx, st) ==
  IF ~Has(input, "days_from_now")
  THEN {Throw(st, "RangeError")}
  ELSE NotifyInsert(input, st, NotificationRow("brian", ctx, "portal", "touchpoint"),
                    {}, Status("touchpoint_scheduled"))

\* insert into agent_memory: the unique (agent_id, company_id, content)
\* constraint answers a duplicate with error code 23505
MemoryInsert(input, ctx, st, type, content, required, dup, ok) ==
  LET row == [agent_id |-> ctx.agentId, company_id |-> ctx.companyId,
              memory_type |-> type, content |-> content,
              confidence |-> 100, created_at |-> Len(st.agent_memory) + 10,
              expires_at |-> <<>>]
      same(m) == /\ m.agent_id = row.agent_id
                 /\ m.company_id = row.company_id
                 /\ m.content = row.content
  IN  {Out(st, StoreError)} \cup
      IF \E f \in required : ~Has(input, f) THEN {}
      ELSE IF \E k \in 1..Len(st.agent_memory) : same(st.agent_memory[k])
      THEN {Out(st, dup)}
      ELSE {Out([st EXCEPT !.agent_memory = Append(@, row)], ok)}

\* a handler that reports the duplicate as the error it got
save_memory_Mutant(input, ctx, st) ==
  MemoryInsert(input, ctx, st,
               IF Has(input, "memory_type") THEN input.memory_type ELSE "none",
               IF Has(input, "content") THEN input.content ELSE "none",
               {"memory_type", "content"},
               ErrorResult("duplicate key value"), Status("memory_saved"))

\* error code 23505 is answered with already_remembered
save_memory(input, ctx, st) ==
  MemoryInsert(input, ctx, st,
               IF Has(input, "memory_type") THEN input.memory_type ELSE "none",
               IF Has(input, "content") THEN input.content ELSE "none",
               {"memory_type", "content"},
               Status("already_remembered"), Status("memory_saved"))

collect_feedback(input, ctx, st) ==
  MemoryInsert(input, ctx, st, "feedback",
               IF Has(input, "feedback_text") THEN input.feedback_text ELSE "undefined",
               {}, Status("feedback_recorded"), Status("feedback_recorded"))

\* inserts into tables no other operation of the model reads
PlainInsert(input, ctx, st, table, required, ok) ==
  {Out(st, StoreError)} \cup
  IF \A f \in required : Has(input, f)
  THEN {Out([st EXCEPT !.inserted = Append(@, [table |-> table,
                                               company_id |-> ctx.companyId])], ok)}
  ELSE {}

create_project(input, ctx, st) ==
  PlainInsert(input, ctx, st, "projects", {"name", "type"}, Status("project_created"))

audit_website(input, ctx, st) ==
  PlainInsert(input, ctx, st, "seo_audits", {"url"}, Status("audit_queued"))

generate_report(input, ctx, st) ==
  PlainInsert(input, ctx, st, "reports", {"report_type", "title"}, Status("report_created"))

track_keywords(input, ctx, st) ==
  IF ~Has(input, "keywords")
  THEN {Throw(st, "TypeError")}
  ELSE PlainInsert(input, ctx, st, "keyword_rankings", {}, Status("keywords_added"))

\* an activity row; inv is bookkeeping only (the invocation on whose behalf
\* the row was written), no operation reads it
ActivityRow(agentId, companyId, actionType, metadata, inv) ==
  [agent_id |-> agentId, company_id |-> companyId, action_type |-> actionType,
   metadata |-> metadata, inv |-> inv]

\* the insert's outcome is not inspected by the handler
route_to_agent(input, ctx, st) ==
  LET row == ActivityRow(ctx.agentId, ctx.companyId, "route_to_agent",
                         [target_agent |-> IF Has(input, "agent_name")
                                           THEN input.agent_name ELSE "undefined"],
                         ctx.inv)
  IN  { Out([st EXCEPT !.agent_activity = Append(@, row)], Status("routed")),
        Out(st, Status("routed")) }

\* update ... eq('id', id) ... single(): no tenant filter; no row is an error
RowExists(tbl, input, f) == Has(input, f) /\ input[f] \in DOMAIN tbl

update_task(input, ctx, st) ==
  {Out(st, StoreError)} \cup
  IF RowExists(st.tasks, input, "task_id")
  THEN {Out([st EXCEPT !.tasks[input.task_id] =
                 [@ EXCEPT !.status = IF Has(input, "status") THEN input.status ELSE @,
                           !.result = IF Has(input, "result") THEN input.result ELSE @]],
            Status("task_updated"))}
  ELSE {}

assign_task(input, ctx, st) ==
  IF ~(Has(input, "agent_name") /\ input.agent_name \in DOMAIN st.agents)
  THEN {Out(st, ErrorResult("Agent not found"))}
  ELSE {Out(st, StoreError)} \cup
       IF Has(input, "title") /\ Has(input, "project_id")
          /\ input.project_id \in DOMAIN SeedOwner
       THEN {Out([st EXCEPT !.tasks = Append(@, [id |-> Len(@) + 1,
                                                 company_id |-> SeedOwner[input.project_id],
                                                 status |-> "pending",
                                                 result |-> "none"])],
                 Status("task_assigned"))}
       ELSE {}

\* the handler as one step: the update of score and stage, then the read of
\* the notes and the write of the extended list (whose outcome is ignored)
score_lead(input, ctx, st) ==
  {Out(st, StoreError)} \cup
  IF RowExists(st.leads, input, "lead_id")
  THEN LET st1 == [st EXCEPT !.leads[input.lead_id] =
                      [@ EXCEPT !.score = IF Has(input, "score") THEN input.score ELSE @,
                                !.stage = IF Has(input, "stage") THEN input.stage ELSE @]]
           entry == [note |-> input.notes, agent |-> ctx.agentName]
           st2 == [st1 EXCEPT !.leads[input.lead_id].notes = Append(@, entry)]
           st3 == [st1 EXCEPT !.leads[input.lead_id].notes = <<entry>>]
       IN  IF Has(input, "notes")
           THEN {Out(st2, Status("lead_updated")), Out(st1, Status("lead_updated")),
                 Out(st3, Status("lead_updated"))}
           ELSE {Out(st1, Status("lead_updated"))}
  ELSE {}

\* status is left to the column default 'pending'
schedule_followup(input, ctx, st) ==
  IF ~Has(input, "days_from_now")
  THEN {Throw(st, "RangeError")}
  ELSE {Out(st, StoreError)} \cup
       IF RowExists(st.leads, input, "lead_id")
       THEN {Out([st EXCEPT !.followup_sequences =
                      Append(@, [lead_id |-> input.lead_id,
                                 company_id |-> st.leads[input.lead_id].company_id,
                                 status |-> "pending"])],
                 Status("followup_scheduled"))}
       ELSE {}

create_content(input, ctx, st) ==
  {Out(st, StoreError)} \cup
  IF Has(input, "platform") /\ Has(input, "content_type")
  THEN {Out([st EXCEPT !.content_calendar =
                 Append(@, [id |-> Len(@) + 1, company_id |-> ctx.companyId,
                            status |-> "draft", scheduled_at |-> "none",
                            created_by_agent |-> ctx.agentName])],
            Status("content_created"))}
  ELSE {}

ContentUpdate(input, st, status, ok) ==
  {Out(st, StoreError)} \cup
  IF RowExists(st.content_calendar, input, "content_id")
  THEN {Out([st EXCEPT !.content_calendar[input.content_id] =
                 [@ EXCEPT !.status = status,
                           !.scheduled_at = IF Has(input, "scheduled_at")
                                            THEN input.scheduled_at ELSE @]],
            ok)}
  ELSE {}

schedule_content(input, ctx, st) ==
  ContentUpdate(input, st, "pending_approval", Status("content_scheduled"))

schedule_post(input, ctx, st) ==
  ContentUpdate(input, st, "scheduled", Status("post_scheduled"))

draft_review_response(input, ctx, st) ==
  {Out(st, StoreError)} \cup
  IF RowExists(st.reviews, input, "review_id")
  THEN {Out([st EXCEPT !.reviews[input.review_id] =
                 [@ EXCEPT !.response_status = "draft_ready",
                           !.response_draft = IF Has(input, "response")
                                              THEN input.response ELSE @]],
            Status("draft_saved"))}
  ELSE {}

\* handlers that only read the store
ReadTools ==
  {"get_brand_kit", "get_company_info", "search_past_projects", "get_project_status",
   "check_deadlines", "get_lead_history", "update_pipeline", "get_style_dna",
   "get_client_history", "repurpose_content", "search_keywords",
   "get_scraped_references", "create_mood_board", "brand_audit",
   "get_keyword_rankings", "analyze_competitors_seo", "generate_seo_report",
   "get_engagement_metrics", "find_trending_topics", "get_best_posting_times",
   "generate_social_report", "get_new_reviews", "get_sentiment_trends",
   "get_competitor_ratings", "generate_reputation_report", "get_competitor_social",
   "track_competitor_pricing", "get_competitor_jobs", "generate_competitive_brief",
   "identify_market_gaps", "get_analytics_data", "detect_anomalies", "calculate_roi",
   "get_conversion_data", "forecast_metrics", "compare_periods", "get_client_activity",
   "calculate_satisfaction_score", "check_renewal_dates", "get_churn_risk"}

ReadHandler(input, ctx, st) == {Out(st, [data |-> "rows"]), Out(st, StoreError)}

\* handlers that touch no store
PureTools ==
  {"check_page_speed", "check_broken_links", "optimize_content", "draft_social_reply",
   "scrape_competitor_site", "search_ad_library", "search_stock_images"}

PureHandler(name, input, ctx, st) ==
  IF name = "optimize_content" /\ ~Has(input, "content")
  THEN {Throw(st, "TypeError")}
  ELSE {Out(st, Status("pending"))}

WriteTools ==
  {"notify_brian", "notify_client", "save_memory", "create_project", "assign_task",
   "update_task", "route_to_agent", "send_email", "score_lead", "generate_proposal",
   "schedule_followup", "create_content", "schedule_content", "generate_canva_design",
   "audit_website", "track_keywords", "schedule_post", "draft_review_response",
   "send_review_request", "alert_brian", "generate_report", "send_recap_email",
   "schedule_touchpoint", "collect_feedback"}

\* the names register() has put into the definitions and handlers maps
definitions == ReadTools \cup PureTools \cup WriteTools

\* handlers.get(name) applied to (input, ctx) on store st
Handler(name, input, ctx, st) ==
  CASE name = "notify_brian"          -> notify_brian(input, ctx, st)
    [] name = "notify_client"         -> notify_client(input, ctx, st)
    [] name = "save_memory"           -> save_memory(input, ctx, st)
    [] name = "create_project"        -> create_project(input, ctx, st)
    [] name = "assign_task"           -> assign_task(input, ctx, st)
    [] name = "update_task"           -> update_task(input, ctx, st)
    [] name = "route_to_agent"        -> route_to_agent(input, ctx, st)
    [] name = "send_email"            -> send_email(input, ctx, st)
    [] name = "score_lead"            -> score_lead(input, ctx, st)
    [] name = "generate_proposal"     -> generate_proposal(input, ctx, st)
    [] name = "schedule_followup"     -> schedule_followup(input, ctx, st)
    [] name = "create_content"        -> create_content(input, ctx, st)
    [] name = "schedule_content"      -> schedule_content(input, ctx, st)
    [] name = "generate_canva_design" -> generate_canva_design(input, ctx, st)
    [] name = "audit_website"         -> audit_website(input, ctx, st)
    [] name = "track_keywords"        -> track_keywords(input, ctx, st)
    [] name = "schedule_post"         -> schedule_post(input, ctx, st)
    [] name = "draft_review_response" -> draft_review_response(input, ctx, st)
    [] name = "send_review_request"   -> send_review_request(input, ctx, st)
    [] name = "alert_brian"           -> alert_brian(input, ctx, st)
    [] name = "generate_report"       -> generate_report(input, ctx, st)
    [] name = "send_recap_email"      -> send_recap_email(input, ctx, st)
    [] name = "schedule_touchpoint"   -> schedule_touchpoint(input, ctx, st)
    [] name = "collect_feedback"      -> collect_feedback(input, ctx, st)
    [] name \in PureTools             -> PureHandler(name, input, ctx, st)
    [] OTHER                          -> ReadHandler(input, ctx, st)

RECURSIVE getToolDefinitions(_)
\* a catalog lookup that declares whatever is configured
getToolDefinitions_Mutant(toolNames) == toolNames
\* getToolDefinitions: the configured names that are registered, in order
getToolDefinitions(toolNames) ==
  IF Len(toolNames) = 0 THEN <<>>
  ELSE IF toolNames[1] \in definitions
  THEN <<toolNames[1]>> \o getToolDefinitions(Tail(toolNames))
  ELSE getToolDefinitions(Tail(toolNames))

\* an executor without the catch-all
executeTool_Mutant(name, input, ctx, st) ==
  IF name \notin definitions
  THEN {Out(st, NotFoundResult(name))}
  ELSE Handler(name, input, ctx, st)

\* executeTool: what the call can return (res) and leave in the store (st);
\* threw is never TRUE in its outcomes
executeTool(name, input, ctx, st) ==
  IF name \notin definitions
  THEN {Out(st, NotFoundResult(name))}
  ELSE {IF o.threw THEN Out(o.st, ExecFailedResult(o.res)) ELSE o :
          o \in Handler(name, input, ctx, st)}

\* ---------------------------------------------------------- memory, prompt
\* confidence floor .gte('confidence', 0.3), in hundredths
MIN_CONFIDENCE == 30
\* .limit(50)
MEMORY_LIMIT == 50

\* clock values a call can observe
Times == 0..2

RECURSIVE SelectRows(_, _, _)
\* the rows of (agentId, companyId) with confidence at or above the floor
SelectRows(rows, agentId, companyId) ==
  IF Len(rows) = 0 THEN <<>>
  ELSE LET m == rows[1]
           rest == SelectRows(Tail(rows), agentId, companyId)
       IN  IF m.agent_id = agentId /\ m.company_id = companyId
              /\ m.confidence >= MIN_CONFIDENCE
           THEN <<m>> \o rest ELSE rest

RECURSIVE NewestFirst(_)
\* order('created_at', descending)
NewestFirst(rows) ==
  IF Len(rows) = 0 THEN <<>>
  ELSE LET k == CHOOSE j \in 1..Len(rows) :
                  \A l \in 1..Len(rows) :
                     \/ rows[j].created_at > rows[l].created_at
                     \/ rows[j].created_at = rows[l].created_at /\ j <= l
       IN  <<rows[k]>> \o
           NewestFirst(SubSeq(rows, 1, k - 1) \o SubSeq(rows, k + 1, Len(rows)))

RECURSIVE NotExpired(_, _)
\* a filter that keeps every row
NotExpired_Mutant(rows, now) == rows
\* the rows without expires_at or with expires_at after now
NotExpired(rows, now) ==
  IF Len(rows) = 0 THEN <<>>
  ELSE IF rows[1].expires_at = <<>> \/ rows[1].expires_at[1] > now
  THEN <<rows[1]>> \o NotExpired(Tail(rows), now)
  ELSE NotExpired(Tail(rows), now)

\* loadMemories when the query succeeds (a failed query yields no memories)
loadMemories(st, agentId, companyId, now) ==
  LET rows == NewestFirst(SelectRows(st.agent_memory, agentId, companyId))
      data == SubSeq(rows, 1, IF Len(rows) < MEMORY_LIMIT THEN Len(rows)
                              ELSE MEMORY_LIMIT)
  IN  NotExpired(data, now)

RECURSIVE TypesOf(_, _)
\* the memory types in order of first appearance (insertion order of grouped)
TypesOf(memories, seen) ==
  IF Len(memories) = 0 THEN <<>>
  ELSE IF memories[1].memory_type \in seen THEN TypesOf(Tail(memories), seen)
  ELSE <<memories[1].memory_type>> \o
       TypesOf(Tail(memories), seen \cup {memories[1].memory_type})

RECURSIVE ItemsOf(_, _)
ItemsOf(memories, type) ==
  IF Len(memories) = 0 THEN <<>>
  ELSE IF memories[1].memory_type = type
  THEN <<memories[1].content>> \o ItemsOf(Tail(memories), type)
  ELSE ItemsOf(Tail(memories), type)

\* a format that writes the header whether or not there are rows
formatMemoriesForPrompt_Mutant(memories) ==
  << [section |-> "memories",
      body |-> LET types == TypesOf(memories, {})
               IN  [k \in 1..Len(types) |->
                      [type |-> types[k], items |-> ItemsOf(memories, types[k])]]] >>

\* The instruction block is the concatenation of its sections, kept as a
\* sequence of sections; formatMemoriesForPrompt yields no section for no rows.
formatMemoriesForPrompt(memories) ==
  IF Len(memories) = 0 THEN <<>>
  ELSE LET types == TypesOf(memories, {})
       IN  << [section |-> "memories",
               body |-> [k \in 1..Len(types) |->
                           [type |-> types[k], items |-> ItemsOf(memories, types[k])]]] >>

HIPAA_REMINDER ==
  [section |-> "hipaa",
   body |-> "This is a behavioral health center. NEVER include PHI"]

\* buildSystemPrompt given what loadMemories returned and what the companies
\* lookup returned (company is <<>> for no data, <<row>> otherwise)
buildSystemPrompt(agent, companyId, memories, company, today) ==
  << [section |-> "base", body |-> agent.system_prompt] >>
  \o (IF company # <<>>
      THEN << [section |-> "context",
               body |-> [type |-> company[1].type, id |-> companyId, date |-> today]] >>
      ELSE <<>>)
  \o formatMemoriesForPrompt(memories)
  \o (IF company # <<>> /\ company[1].type = "bh_center"
      THEN <<HIPAA_REMINDER>> ELSE <<>>)

\* ------------------------------------------------------- model responses
Text(s) == [type |-> "text", text |-> s]
ToolUse(name, input) == [type |-> "tool_use", id |-> <<0, 0>>, name |-> name, input |-> input]
Response(content, stop) == [content |-> content, stop_reason |-> stop]

\* tool_use ids are unique within an invocation: round and position
StampIds(content, r) ==
  [k \in 1..Len(content) |->
     IF content[k].type = "tool_use" THEN [content[k] EXCEPT !.id = <<r, k>>]
     ELSE content[k]]


\* requests a backend may make, whatever the agent's declared tools
U_speed    == ToolUse("check_page_speed", [url |-> "u"])
U_score    == ToolUse("score_lead", [lead_id |-> 1, score |-> 80, notes |-> "n1"])

PlainResponses ==
  { Response(<<Text(<<"b">>)>>, "end_turn"),
    Response(<<U_speed>>, "tool_use"),
    Response(<<U_speed>>, "end_turn") }

Responses ==
  PlainResponses \cup
  { Response(<<>>, "end_turn") } \cup
  { Response(<<u>>, "tool_use") :
      u \in { U_score,
              ToolUse("notify_client", [title |-> "t", body |-> "b"]),
              ToolUse("schedule_post", [content_id |-> 1, scheduled_at |-> "d"]),
              ToolUse("route_to_agent", [agent_name |-> "mia", message |-> "m"]) } } \cup
  { Response(<<ToolUse("launch_campaign", <<>>),
               ToolUse("send_email", [to |-> "x", subject |-> "s", body |-> "b"])>>,
             "tool_use"),
    Response(<<ToolUse("generate_proposal", [lead_id |-> 1]), U_score>>, "tool_use"),
    Response(<<Text(<<"a">>), U_speed>>, "tool_use"),
    Response(<<Text(<<"a">>), U_speed>>, "end_turn"),
    Response(<<Text(<<>>), U_speed>>, "end_turn"),
    Response(<<Text(<<"a">>), Text(<<>>)>>, "max_tokens") }

\* ------------------------------------------------------------------ router
\* JS values; numbers that stand for confidences are in hundredths
JsUndefined == [t |-> "undefined"]
JsStr(v) == [t |-> "string", v |-> v]
JsNum(v) == [t |-> "number", v |-> v]

JsonObject(fields) == [kind |-> "object", fields |-> fields]

\* The text of the router's answer as a sequence of tokens: a code fence
\* with or without the json tag, prose, or one JSON value.
Tok(t) == [tok |-> t]
Json(v) == [tok |-> "json", value |-> v]

\* strip a leading fence (with or without the json tag), then a trailing
\* bare fence, then trim
Clean(text) ==
  LET t1 == IF Len(text) > 0 /\ text[1] \in {Tok("fence"), Tok("fence_json")} THEN Tail(text) ELSE text
  IN  IF Len(t1) > 0 /\ t1[Len(t1)] = Tok("fence") THEN SubSeq(t1, 1, Len(t1) - 1) ELSE t1

\* JSON.parse: <<value>>, or <<>> when it throws a SyntaxError
JsonParse(text) ==
  IF Len(text) = 1 /\ text[1].tok = "json" THEN <<text[1].value>> ELSE <<>>

\* property access parsed.f on a parsed value that is not null
Prop(v, f) ==
  IF v.kind = "object" /\ f \in DOMAIN v.fields THEN v.fields[f] ELSE JsUndefined

ATLAS_FALLBACK_NO_TEXT ==
  [targetAgent |-> JsStr("atlas"),
   reasoning |-> JsStr("Routing failed, defaulting to Atlas"), confidence |-> JsNum(50)]

ATLAS_FALLBACK_PARSE ==
  [targetAgent |-> JsStr("atlas"),
   reasoning |-> JsStr("Failed to parse routing, defaulting to Atlas"),
   confidence |-> JsNum(50)]

\* routeMessage after the model call returned content
routeMessage(content) ==
  LET textBlocks == SelectSeqBy(content, "text")
  IN  IF Len(textBlocks) = 0 THEN ATLAS_FALLBACK_NO_TEXT
      ELSE LET parsed == JsonParse(Clean(textBlocks[1].text))
           IN  IF parsed = <<>> \/ parsed[1].kind = "null"
               THEN ATLAS_FALLBACK_PARSE
               ELSE [targetAgent |-> Prop(parsed[1], "target_agent"),
                     reasoning |-> Prop(parsed[1], "reasoning"),
                     confidence |-> Prop(parsed[1], "confidence")]

Decision(agent, conf) ==
  JsonObject([target_agent |-> JsStr(agent), reasoning |-> JsStr("r"),
              confidence |-> JsNum(conf)])

\* JSON values the routing model may answer with
RouterValues ==
  { Decision("marcus", 90), Decision("mia", 70), Decision("atlas", 60),
    Decision("zed", 80), Decision("atlas", 150),
    JsonObject([reasoning |-> JsStr("r"), confidence |-> JsNum(90)]),
    JsonObject([target_agent |-> JsNum(7)]),
    JsonObject(<<>>), [kind |-> "null"], [kind |-> "number"] }

\* contents the routing model may answer with
RouterContents ==
  { <<>> } \cup
  { <<Text(<<Json(v)>>)>> : v \in RouterValues } \cup
  { <<Text(<<>>)>>, <<Text(<<Tok("prose")>>)>>,
    <<Text(<<Tok("prose"), Json(Decision("marcus", 90))>>)>>,
    <<Text(<<Tok("fence_json"), Json(Decision("marcus", 90)), Tok("fence")>>)>>,
    <<Text(<<Tok("fence"), Json(Decision("mia", 70)), Tok("fence")>>)>>,
    <<Text(<<Json(Decision("mia", 70)), Tok("fence_json")>>)>>,
    <<Text(<<Tok("prose")>>), Text(<<Json(Decision("marcus", 90))>>)>> }

\* ------------------------------------------------------------------- state
VARIABLES
  store,            \* the data store
  callers,          \* the invocations the API layer issues
  pc,               \* pc[i]: where invocation i stands
  params,           \* params[i]: entry point, agentName, companyId
  routerContent,    \* routerContent[i]: the routing model's answer inside routeMessage
  routing,          \* routing[i]: the RouteResult of handleMessage
  agent,            \* agent[i]: <<>> or <<the loaded AgentRecord>>
  memories,         \* memories[i]: what loadMemories returned to buildSystemPrompt
  memLoad,          \* memLoad[i]: when loadMemories was called, the time its filter
                    \* read, and whether its query failed
  systemPrompt,     \* systemPrompt[i]
  currentMessages,  \* currentMessages[i]: the transcript
  finalResponse,    \* finalResponse[i]
  toolsUsed,        \* toolsUsed[i]
  round,            \* round[i]: the loop counter
  response,         \* response[i]: the model response being processed
  pending,          \* pending[i]: its tool_use blocks not yet executed
  toolResults,      \* toolResults[i]: the results of those executed
  lastCall,         \* lastCall[i]: <<>> or <<apiParams of the latest model call>>
  modelCalls,       \* modelCalls[i]: model calls made by runAgent
  outcome,          \* outcome[i]: what the caller got
  conversation,     \* the conversations row the approval queue works on
  email_log,        \* the email_log rows of that conversation
  gmailSent,        \* the messages Gmail was asked to send
  op,               \* op[i]: the approval-queue call operator i is in
  queueCalls,       \* the approval-queue calls made so far, by operation
  handler           \* handler[i]: the score_lead handler of invocation i between its awaits

vars == <<store, callers, pc, params, routerContent, routing, agent, memories, memLoad,
          systemPrompt, currentMessages,
          finalResponse, toolsUsed, round, response, pending, toolResults, lastCall,
          modelCalls, outcome, conversation, email_log, gmailSent, op, queueCalls,
          handler>>

loopVars == <<currentMessages, finalResponse, toolsUsed, round, response, pending,
              toolResults, lastCall, modelCalls>>

memVars == <<memories, memLoad>>

queueVars == <<conversation, email_log, gmailSent, op, queueCalls>>

NoLoad == [called |-> 0, now |-> 0, failed |-> FALSE, done |-> FALSE]

\* metadata is <<>> (not supplied) or <<the object the caller supplied>>;
\* conversationHistory is the turns the caller supplied (none when it
\* supplied no history)
NoParams ==
  [entry |-> "none", agentName |-> JsUndefined, companyId |-> "none", metadata |-> <<>>,
   conversationHistory |-> <<>>]
NoRouting == [targetAgent |-> JsUndefined, reasoning |-> JsUndefined,
              confidence |-> JsUndefined]
NoResponse == Response(<<>>, "none")
NoOutcome == [kind |-> "none"]
\* no handler is between two awaits
NoHandler == [pc |-> "idle", existingNotes |-> <<>>]

\* the RunAgentResult; activityId 0 stands for the empty string
Returned(i, activityId) ==
  [kind |-> "returned", response |-> finalResponse[i], toolsUsed |-> toolsUsed[i],
   activityId |-> activityId]

\* an exception reaching the caller: error is what the caller sees, cause
\* tells apart the ways loadAgent comes back with null
Threw(err, cause) == [kind |-> "threw", error |-> err, cause |-> cause]

\* an entry of conversation_history; email_log_id 0 stands for the empty
\* string, timestamps are left out
HistoryEntry(role, content) == [role |-> role, content |-> content, email_log_id |-> 0]

\* the conversation the email processor created for an inbound message that
\* requires a response, and the log row of that message
NewConversation(status) ==
  [status |-> status, history |-> <<HistoryEntry("client", "hello")>>]

\* no approval-queue call is in progress
NoOp ==
  [kind |-> "none", pc |-> "idle", draftBody |-> <<>>, permanent |-> FALSE,
   conversation |-> <<>>, inReplyTo |-> <<>>, sendResult |-> <<>>,
   insertedLog |-> <<>>, result |-> "none"]

\* the approval queue at rest: the conversation as created, the log row of
\* its inbound message, nothing sent, no call in progress
QueueIdle(status) ==
  /\ conversation = NewConversation(status)
  /\ email_log = <<[direction |-> "inbound", gmail_message_id |-> "g0", body |-> "hello"]>>
  /\ gmailSent = <<>>
  /\ op = [i \in Inv |-> NoOp]
  /\ queueCalls = <<>>

\* the locals of an invocation before its first step
InitLocals ==
  /\ handler = [i \in Inv |-> NoHandler]
  /\ routerContent = [i \in Inv |-> <<>>]
  /\ routing = [i \in Inv |-> NoRouting]
  /\ memories = [i \in Inv |-> <<>>]
  /\ memLoad = [i \in Inv |-> NoLoad]
  /\ systemPrompt = [i \in Inv |-> <<>>]
  /\ currentMessages = [i \in Inv |-> <<>>]
  /\ finalResponse = [i \in Inv |-> <<>>]
  /\ toolsUsed = [i \in Inv |-> <<>>]
  /\ round = [i \in Inv |-> 0]
  /\ response = [i \in Inv |-> NoResponse]
  /\ pending = [i \in Inv |-> <<>>]
  /\ toolResults = [i \in Inv |-> <<>>]
  /\ lastCall = [i \in Inv |-> <<>>]
  /\ modelCalls = [i \in Inv |-> 0]
  /\ outcome = [i \in Inv |-> NoOutcome]

InitInv ==
  /\ pc = [i \in Inv |-> "idle"]
  /\ params = [i \in Inv |-> NoParams]
  /\ agent = [i \in Inv |-> <<>>]
  /\ InitLocals


\* one caller
Init ==
  /\ callers = {1}
  /\ \E inactive \in {{}, {"atlas"}, {"mia"}}, mem \in MemorySets :  \* deactivated agents
        store = InitStore([n \in AgentNames |-> n \notin inactive], mem)
  /\ InitInv
  /\ QueueIdle("active")


\* ---------------------------------------------------------- orchestrator
\* where an exported operation begins
EntryPoint ==
  [handleMessage |-> "routing", runSpecificAgent |-> "loadAgent",
   getAgent |-> "getAgent", listAgents |-> "listAgents"]

\* the API layer calls handleMessage, runSpecificAgent, getAgent or listAgents
Start(i) ==
  /\ i \in callers
  /\ pc[i] = "idle"
  /\ \E e \in DOMAIN EntryPoint, c \in CompanyIds, n \in AgentNames \cup {"zed"} :
        /\ params' = [params EXCEPT ![i] =
              [entry |-> e,
               agentName |-> IF e \in {"runSpecificAgent", "getAgent"}
                             THEN JsStr(n) ELSE JsUndefined,
               companyId |-> IF e \in {"handleMessage", "runSpecificAgent"}
                             THEN c ELSE "none",
               metadata |-> <<>>, conversationHistory |-> <<>>]]
        /\ pc' = [pc EXCEPT ![i] = EntryPoint[e]]
  /\ UNCHANGED <<store, callers, queueVars, handler, routerContent, routing, agent, systemPrompt, outcome>>
  /\ UNCHANGED loopVars
  /\ UNCHANGED memVars

\* handleMessage step 1: routeMessage, whose model call may fail
RouteMessage(i) ==
  /\ pc[i] = "routing"
  /\ \/ /\ outcome' = [outcome EXCEPT ![i] = Threw("transport", "transport")]
        /\ pc' = [pc EXCEPT ![i] = "done"]
        /\ UNCHANGED <<routerContent, routing>>
     \/ \E content \in RouterContents :
          /\ routerContent' = [routerContent EXCEPT ![i] = content]
          /\ routing' = [routing EXCEPT ![i] = routeMessage(content)]
          /\ pc' = [pc EXCEPT ![i] = "logRouting"]
          /\ UNCHANGED outcome
  /\ UNCHANGED <<store, callers, queueVars, handler, params, agent, systemPrompt>>
  /\ UNCHANGED loopVars
  /\ UNCHANGED memVars

\* handleMessage: look up atlas (by name only) and, if found, insert the
\* message_routed row; neither outcome is inspected.  Then runAgent is called
\* with routing.targetAgent.
LogRouting(i) ==
  /\ pc[i] = "logRouting"
  /\ \/ /\ "atlas" \in DOMAIN store.agents
        /\ store' = [store EXCEPT !.agent_activity =
              Append(@, ActivityRow(store.agents["atlas"].id, params[i].companyId,
                                    "message_routed",
                                    [target_agent |-> routing[i].targetAgent,
                                     reasoning |-> routing[i].reasoning,
                                     confidence |-> routing[i].confidence], i))]
     \/ UNCHANGED store
  /\ params' = [params EXCEPT ![i].agentName = routing[i].targetAgent]
  /\ routerContent' = [routerContent EXCEPT ![i] = <<>>]
  /\ pc' = [pc EXCEPT ![i] = "loadAgent"]
  /\ UNCHANGED <<callers, queueVars, handler, routing, agent, systemPrompt, outcome>>
  /\ UNCHANGED loopVars
  /\ UNCHANGED memVars

\* ------------------------------------------------------------- runAgent
\* loadAgent: the active row of that name, or null (also on a store error),
\* on which runAgent throws
\* a lookup by name alone
loadAgent_Mutant(st, agentName) ==
  IF agentName.t = "string" /\ agentName.v \in DOMAIN st.agents
  THEN <<st.agents[agentName.v]>>
  ELSE <<>>

loadAgent(st, agentName) ==
  IF /\ agentName.t = "string"
     /\ agentName.v \in DOMAIN st.agents
     /\ st.agents[agentName.v].is_active
  THEN <<st.agents[agentName.v]>>
  ELSE <<>>

LoadAgent(i) ==
  /\ pc[i] = "loadAgent"
  /\ \/ /\ loadAgent(store, params[i].agentName) # <<>>
        /\ agent' = [agent EXCEPT ![i] = loadAgent(store, params[i].agentName)]
        /\ pc' = [pc EXCEPT ![i] = "loadMemories"]
        /\ UNCHANGED outcome
     \/ /\ loadAgent(store, params[i].agentName) = <<>>
        /\ outcome' = [outcome EXCEPT ![i] = Threw("not_found", "no_row")]
        /\ pc' = [pc EXCEPT ![i] = "done"]
        /\ UNCHANGED agent
     \/ /\ outcome' = [outcome EXCEPT ![i] = Threw("not_found", "store_error")]
        /\ pc' = [pc EXCEPT ![i] = "done"]
        /\ UNCHANGED agent
  /\ UNCHANGED <<store, callers, queueVars, handler, params, routerContent, routing, systemPrompt>>
  /\ UNCHANGED loopVars
  /\ UNCHANGED memVars

\* getAgent: what loadAgent returns, null included (also on a store error)
GetAgent(i) ==
  /\ pc[i] = "getAgent"
  /\ \E row \in {loadAgent(store, params[i].agentName), <<>>} :
        outcome' = [outcome EXCEPT ![i] = [kind |-> "agent", value |-> row]]
  /\ pc' = [pc EXCEPT ![i] = "done"]
  /\ UNCHANGED <<store, callers, queueVars, handler, params, routerContent, routing, agent, systemPrompt>>
  /\ UNCHANGED loopVars
  /\ UNCHANGED memVars

RECURSIVE ActiveRows(_, _)
ActiveRows(st, names) ==
  IF Len(names) = 0 THEN <<>>
  ELSE IF st.agents[names[1]].is_active
  THEN <<st.agents[names[1]]>> \o ActiveRows(st, Tail(names))
  ELSE ActiveRows(st, Tail(names))

\* listAgents: the active rows, in the order of their names
listAgents(st) == ActiveRows(st, <<"atlas", "marcus", "mia">>)

\* listAgents, whose failed query yields the empty list
ListAgents(i) ==
  /\ pc[i] = "listAgents"
  /\ \E rows \in {listAgents(store), <<>>} :
        outcome' = [outcome EXCEPT ![i] = [kind |-> "agents", value |-> rows]]
  /\ pc' = [pc EXCEPT ![i] = "done"]
  /\ UNCHANGED <<store, callers, queueVars, handler, params, routerContent, routing, agent, systemPrompt>>
  /\ UNCHANGED loopVars
  /\ UNCHANGED memVars

\* buildMessages: the history, then the new user message
buildMessages(userMessage, conversationHistory) ==
  conversationHistory \o <<[role |-> "user", content |-> <<Text(userMessage)>>]>>

\* buildSystemPrompt, first await: loadMemories.  The call is made at time
\* called, the query answers with rows or fails, and the expiry filter reads
\* the clock (now) once the query is back.
LoadMemories(i) ==
  /\ pc[i] = "loadMemories"
  /\ \E called \in Times, now \in Times, failed \in BOOLEAN :
        /\ called <= now
        /\ memLoad' = [memLoad EXCEPT ![i] =
              [called |-> called, now |-> now, failed |-> failed, done |-> TRUE]]
        /\ memories' = [memories EXCEPT ![i] =
              IF failed THEN <<>>
              ELSE loadMemories(store, agent[i][1].id, params[i].companyId, now)]
  /\ pc' = [pc EXCEPT ![i] = "buildSystemPrompt"]
  /\ UNCHANGED <<store, callers, queueVars, handler, params, routerContent, routing, agent, systemPrompt,
                 outcome>>
  /\ UNCHANGED loopVars

\* buildSystemPrompt, second await (the companies lookup answers with the
\* row or with nothing) and the composition of the prompt, after which its
\* locals are gone; then getToolDefinitions and buildMessages
BuildSystemPrompt(i) ==
  /\ pc[i] = "buildSystemPrompt"
  /\ \E companyOk \in BOOLEAN :
        systemPrompt' = [systemPrompt EXCEPT ![i] =
           buildSystemPrompt(agent[i][1], params[i].companyId, memories[i],
              IF companyOk
              THEN <<[id |-> params[i].companyId,
                      type |-> CompanyType[params[i].companyId]]>>
              ELSE <<>>,
              "today")]
  /\ memories' = [memories EXCEPT ![i] = <<>>]
  /\ memLoad' = [memLoad EXCEPT ![i] = NoLoad]
  /\ currentMessages' = [currentMessages EXCEPT ![i] =
        buildMessages(<<"m">>, params[i].conversationHistory)]
  /\ pc' = [pc EXCEPT ![i] = "awaitingModel"]
  /\ UNCHANGED <<store, callers, queueVars, handler, params, routerContent, routing, agent, outcome,
                 finalResponse, toolsUsed, round, response, pending, toolResults,
                 lastCall, modelCalls>>

ToolCtx(i) ==
  [agentId |-> agent[i][1].id, agentName |-> agent[i][1].name,
   companyId |-> params[i].companyId, inv |-> i]

TextsOf(blocks) == [k \in 1..Len(blocks) |-> blocks[k].text]

\* what the backend may answer in this round: any response in the first
\* MaxVariedRounds rounds of a direct run, a plain one otherwise
Answers(i) ==
  IF params[i].entry = "runSpecificAgent" /\ round[i] < MaxVariedRounds
  THEN Responses ELSE PlainResponses

\* an accumulation that forgets the test for text blocks
accumulate_Mutant(final, textBlocks) == Join(TextsOf(textBlocks))

\* if there are text blocks, accumulate them
accumulate(final, textBlocks) ==
  IF Len(textBlocks) > 0 THEN Join(TextsOf(textBlocks)) ELSE final

\* a loop that stops at every response, tool requests or not
afterResponse_NoTools(toolUseBlocks) == "logActivity"

\* a loop that forgets the break
afterResponse_Mutant(toolUseBlocks) ==
  IF Len(toolUseBlocks) = 0 THEN "awaitingModel" ELSE "executingTools"

\* if no tool use, we are done
afterResponse(toolUseBlocks) ==
  IF Len(toolUseBlocks) = 0 THEN "logActivity" ELSE "executingTools"

\* a loop that retries a failed model call
afterModelError_Mutant == "awaitingModel"

\* a failed model call is not caught: runAgent is over
afterModelError == "done"

\* a loop that stops on end_turn whether or not there is text
afterTools_Mutant(stop, final, r) ==
  IF stop = "end_turn" THEN [pc |-> "logActivity", round |-> r]
  ELSE IF r + 1 < MAX_TOOL_ROUNDS THEN [pc |-> "awaitingModel", round |-> r + 1]
  ELSE [pc |-> "logActivity", round |-> r + 1]

\* after the tool calls of round r: break on end_turn with text, else round++
\* and the loop condition
afterTools(stop, final, r) ==
  IF stop = "end_turn" /\ Len(final) > 0 THEN [pc |-> "logActivity", round |-> r]
  ELSE IF r + 1 < MAX_TOOL_ROUNDS THEN [pc |-> "awaitingModel", round |-> r + 1]
  ELSE [pc |-> "logActivity", round |-> r + 1]

\* one pass of the loop up to its first await after the model call: the call
\* (which may fail), the split into text and tool_use blocks, the accumulated
\* text, and the break when no tool is requested
ModelCall(i) ==
  /\ pc[i] = "awaitingModel"
  /\ modelCalls' = [modelCalls EXCEPT ![i] = @ + 1]
  /\ lastCall' = [lastCall EXCEPT ![i] =
        <<[system |-> systemPrompt[i], tools |-> getToolDefinitions(agent[i][1].tools),
           messages |-> currentMessages[i]]>>]
  /\ \/ /\ outcome' = [outcome EXCEPT ![i] = Threw("transport", "transport")]
        /\ pc' = [pc EXCEPT ![i] = afterModelError]
        /\ UNCHANGED <<finalResponse, response, pending, toolResults>>
     \/ \E r \in Answers(i) :
          LET content == StampIds(r.content, round[i] + 1)
              toolUseBlocks == SelectSeqBy(content, "tool_use")
              textBlocks == SelectSeqBy(content, "text")
          IN  /\ response' = [response EXCEPT ![i] = Response(content, r.stop_reason)]
              /\ finalResponse' = [finalResponse EXCEPT ![i] = accumulate(@, textBlocks)]
              /\ pending' = [pending EXCEPT ![i] = toolUseBlocks]
              /\ toolResults' = [toolResults EXCEPT ![i] = <<>>]
              /\ pc' = [pc EXCEPT ![i] = afterResponse(toolUseBlocks)]
              /\ UNCHANGED outcome
  /\ UNCHANGED <<store, callers, queueVars, handler, params, routerContent, routing, agent, systemPrompt,
                 currentMessages, toolsUsed, round>>
  /\ UNCHANGED memVars

\* a transcript extended by the tool results alone
appendRound_Mutant(messages, content, results) ==
  messages \o <<[role |-> "user", content |-> results]>>

\* add the assistant response and the tool results for the next round
appendRound(messages, content, results) ==
  messages \o <<[role |-> "assistant", content |-> content],
                [role |-> "user", content |-> results]>>

\* a list that keeps only the tools that answered without an error
pushToolsUsed_Mutant(used, name, result) ==
  IF "error" \in DOMAIN result THEN used ELSE Append(used, name)

\* toolsUsed.push(toolUse.name), before the tool runs and whatever it answers
pushToolsUsed(used, name, result) == Append(used, name)

\* a loop that starts a tool call without awaiting the one before it
Awaited_Mutant(h) == TRUE

\* await executeTool(...): the for loop goes on to a tool call only when the
\* call before it has resolved
Awaited(h) == h.pc = "idle"

\* toolResults.push of the result of toolUse; after the last call of the
\* round the transcript is extended and the loop stops or goes on
PushResult(i, toolUse, res) ==
  LET results == Append(toolResults[i],
                        [type |-> "tool_result", tool_use_id |-> toolUse.id,
                         content |-> res])
      last == Len(pending[i]) = 1
      after == afterTools(response[i].stop_reason, finalResponse[i], round[i])
  IN  /\ pending' = [pending EXCEPT ![i] = Tail(@)]
      /\ toolResults' = [toolResults EXCEPT ![i] = results]
      /\ currentMessages' = [currentMessages EXCEPT ![i] =
            IF last THEN appendRound(@, response[i].content, results) ELSE @]
      /\ round' = [round EXCEPT ![i] = IF last THEN after.round ELSE @]
      /\ pc' = [pc EXCEPT ![i] = IF last THEN after.pc ELSE @]

\* one tool call of the round; after the last one the transcript is extended
\* and the loop either stops (end_turn with text, or the round cap) or goes
\* to the next model call.  An exception leaving executeTool would leave
\* runAgent.
ExecTool(i) ==
  /\ pc[i] = "executingTools"
  /\ Len(pending[i]) > 0
  /\ Awaited(handler[i])
  /\ LET toolUse == Head(pending[i])
     IN  \E o \in executeTool(toolUse.name, toolUse.input, ToolCtx(i), store) :
           /\ store' = o.st
           /\ toolsUsed' = [toolsUsed EXCEPT ![i] = pushToolsUsed(@, toolUse.name, o.res)]
           /\ IF o.threw
              THEN /\ outcome' = [outcome EXCEPT ![i] = Threw("tool", "tool")]
                   /\ pc' = [pc EXCEPT ![i] = "done"]
                   /\ UNCHANGED <<pending, toolResults, currentMessages, round>>
              ELSE /\ PushResult(i, toolUse, o.res)
                   /\ UNCHANGED outcome
  /\ UNCHANGED <<callers, queueVars, handler, params, routerContent, routing, agent, systemPrompt,
                 finalResponse, response, lastCall, modelCalls>>
  /\ UNCHANGED memVars

\* { ...a, ...b }: the keys of both, b's value where both have the key
Spread(a, b) ==
  [k \in DOMAIN a \cup DOMAIN b |-> IF k \in DOMAIN b THEN b[k] ELSE a[k]]

\* metadata || {}
OrEmpty(metadata) == IF metadata = <<>> THEN <<>> ELSE metadata[1]

\* the metadata runAgent is called with: the caller's as it is by
\* runSpecificAgent, with routed_by and routing_confidence by handleMessage
runMetadata(i) ==
  IF params[i].entry = "handleMessage"
  THEN <<Spread(OrEmpty(params[i].metadata),
                [routed_by |-> "atlas", routing_confidence |-> routing[i].confidence])>>
  ELSE params[i].metadata

\* the metadata of the chat_response record
activityMetadata(used, final, metadata) ==
  Spread([tools_used |-> used, response_length |-> Len(final)], OrEmpty(metadata))

\* logActivity, whose failed insert yields the empty id, and the return
LogActivity(i) ==
  /\ pc[i] = "logActivity"
  /\ \/ /\ store' = [store EXCEPT !.agent_activity =
              Append(@, ActivityRow(agent[i][1].id, params[i].companyId, "chat_response",
                                    activityMetadata(toolsUsed[i], finalResponse[i],
                                                     runMetadata(i)), i))]
        /\ outcome' = [outcome EXCEPT ![i] = Returned(i, Len(store.agent_activity) + 1)]
     \/ /\ UNCHANGED store
        /\ outcome' = [outcome EXCEPT ![i] = Returned(i, 0)]
  /\ pc' = [pc EXCEPT ![i] = "done"]
  /\ UNCHANGED <<callers, queueVars, handler, params, routerContent, routing, agent, systemPrompt>>
  /\ UNCHANGED loopVars
  /\ UNCHANGED memVars

Next ==
  \E i \in Inv :
     \/ Start(i)
     \/ RouteMessage(i)
     \/ LogRouting(i)
     \/ LoadAgent(i)
     \/ GetAgent(i)
     \/ ListAgents(i)
     \/ LoadMemories(i)
     \/ BuildSystemPrompt(i)
     \/ ModelCall(i)
     \/ ExecTool(i)
     \/ LogActivity(i)

Spec == Init /\ [][Next]_vars

\* ------------------------------------------------ invocations in a round
\* Invocations that run concurrently and have each received the first
\* response of their loop: sc[i] gives the agent, the tenant and the content
\* of the response of invocation i.  The locals are what Start, LoadAgent,
\* LoadMemories, BuildSystemPrompt and ModelCall leave.
InRound(sc) ==
  LET row(i) == AgentRow(sc[i].agentName, TRUE)
      prompt(i) == buildSystemPrompt(row(i), sc[i].companyId, <<>>,
                      <<[id |-> sc[i].companyId, type |-> CompanyType[sc[i].companyId]]>>,
                      "today")
      content(i) == StampIds(sc[i].content, 1)
  IN  /\ callers = Inv
      /\ pc = [i \in Inv |-> "executingTools"]
      /\ params = [i \in Inv |-> [entry |-> "runSpecificAgent",
                                    agentName |-> JsStr(sc[i].agentName),
                                    companyId |-> sc[i].companyId, metadata |-> <<>>,
                                    conversationHistory |-> <<>>]]
      /\ routerContent = [i \in Inv |-> <<>>]
      /\ routing = [i \in Inv |-> NoRouting]
      /\ agent = [i \in Inv |-> <<row(i)>>]
      /\ memories = [i \in Inv |-> <<>>]
      /\ memLoad = [i \in Inv |-> NoLoad]
      /\ systemPrompt = [i \in Inv |-> prompt(i)]
      /\ currentMessages = [i \in Inv |-> buildMessages(<<"m">>, <<>>)]
      /\ finalResponse = [i \in Inv |-> accumulate(<<>>, SelectSeqBy(content(i), "text"))]
      /\ toolsUsed = [i \in Inv |-> <<>>]
      /\ round = [i \in Inv |-> 0]
      /\ response = [i \in Inv |-> Response(content(i), "tool_use")]
      /\ pending = [i \in Inv |-> SelectSeqBy(content(i), "tool_use")]
      /\ toolResults = [i \in Inv |-> <<>>]
      /\ lastCall = [i \in Inv |->
            <<[system |-> prompt(i), tools |-> getToolDefinitions(row(i).tools),
               messages |-> buildMessages(<<"m">>, <<>>)]>>]
      /\ modelCalls = [i \in Inv |-> 1]
      /\ outcome = [i \in Inv |-> NoOutcome]
      /\ handler = [i \in Inv |-> NoHandler]

\* the tool calls of the round, interleaved at their awaits
NextRound == \E i \in Inv : ExecTool(i)

\* --------------------------------------------- concurrent memory writes
U_save(txt) == ToolUse("save_memory", [memory_type |-> "fact", content |-> txt])

\* marcus, for either tenant, is asked to remember one thing, the same thing
\* twice, or two things
SaveScenarios ==
  [agentName : {"marcus"}, companyId : CompanyIds,
   content : { <<U_save("a")>>, <<U_save("a"), U_save("a")>>,
               <<U_save("a"), U_save("b")>> }]

\* the table is empty or holds the thing already
InitSave ==
  /\ \E mem \in { <<>>, <<MemoryRow("marcus", "c_bh", "fact", "a", 100, 1, <<>>)>> } :
        store = InitStore([n \in AgentNames |-> TRUE], mem)
  /\ \E sc \in [Inv -> SaveScenarios] : InRound(sc)
  /\ QueueIdle("active")

SpecSave == InitSave /\ [][NextRound]_vars


\* ------------------------------------------------- concurrent lead notes
\* The score_lead handler await by await, for invocations that work on the
\* same lead at the same time.  First await: the update of score and stage;
\* its error is returned, and without notes the handler is done.
ScoreUpdate(i) ==
  /\ pc[i] = "executingTools"
  /\ Len(pending[i]) > 0
  /\ Head(pending[i]).name = "score_lead"
  /\ Awaited(handler[i])
  /\ LET toolUse == Head(pending[i])
         input == toolUse.input
     IN  /\ toolsUsed' = [toolsUsed EXCEPT ![i] = pushToolsUsed(@, toolUse.name, <<>>)]
         /\ \/ /\ PushResult(i, toolUse, StoreError)
               /\ UNCHANGED <<store, handler>>
            \/ /\ RowExists(store.leads, input, "lead_id")
               /\ store' = [store EXCEPT !.leads[input.lead_id] =
                     [@ EXCEPT !.score = IF Has(input, "score") THEN input.score ELSE @,
                               !.stage = IF Has(input, "stage") THEN input.stage ELSE @]]
               /\ IF Has(input, "notes")
                  THEN /\ handler' = [handler EXCEPT ![i].pc = "select"]
                       /\ UNCHANGED <<pending, toolResults, currentMessages, round, pc>>
                  ELSE /\ PushResult(i, toolUse, Status("lead_updated"))
                       /\ UNCHANGED handler
  /\ UNCHANGED <<callers, queueVars, params, routerContent, routing, agent, systemPrompt,
                 finalResponse, response, lastCall, modelCalls, outcome>>
  /\ UNCHANGED memVars

\* second await: the select of the lead's notes; a failed select leaves lead
\* null and existingNotes empty
ScoreSelect(i) ==
  /\ handler[i].pc = "select"
  /\ \E existingNotes \in {store.leads[Head(pending[i]).input.lead_id].notes, <<>>} :
        handler' = [handler EXCEPT ![i] = [pc |-> "append", existingNotes |-> existingNotes]]
  /\ UNCHANGED <<store, callers, queueVars, pc, params, routerContent, routing, agent,
                 systemPrompt, outcome>>
  /\ UNCHANGED loopVars
  /\ UNCHANGED memVars

\* third await: the update that writes existingNotes and the new note; its
\* result is not looked at, and the handler returns lead_updated
ScoreAppend(i) ==
  /\ handler[i].pc = "append"
  /\ LET toolUse == Head(pending[i])
         input == toolUse.input
     IN  /\ \/ UNCHANGED store
            \/ store' = [store EXCEPT !.leads[input.lead_id].notes =
                  Append(handler[i].existingNotes,
                         [note |-> input.notes, agent |-> ToolCtx(i).agentName])]
         /\ PushResult(i, toolUse, Status("lead_updated"))
  /\ handler' = [handler EXCEPT ![i] = NoHandler]
  /\ UNCHANGED <<callers, queueVars, params, routerContent, routing, agent, systemPrompt,
                 finalResponse, toolsUsed, response, lastCall, modelCalls, outcome>>
  /\ UNCHANGED memVars

\* marcus is asked, in two invocations for c_bh at once, to score lead 1:
\* with a note, with two notes in one round, or without a note
ScoreScenarios ==
  [agentName : {"marcus"}, companyId : {"c_bh"},
   content : { <<U_score>>, <<[U_score EXCEPT !.input.notes = "n2"]>>,
               <<U_score, [U_score EXCEPT !.input.notes = "n2"]>>,
               <<ToolUse("score_lead", [lead_id |-> 1, score |-> 50])>> }]

InitScore ==
  /\ store = InitStore([n \in AgentNames |-> TRUE], <<>>)
  /\ \E sc \in [Inv -> ScoreScenarios] : InRound(sc)
  /\ QueueIdle("active")

NextScore ==
  \E i \in Inv :
     \/ ScoreUpdate(i)
     \/ ScoreSelect(i)
     \/ ScoreAppend(i)

SpecScore == InitScore /\ [][NextScore]_vars

\* ------------------------------------------------ any configured tools
\* lists an administrator may configure, of registered names and one that no
\* register() call has introduced
ToolLists ==
  UNION { [1..n -> {"send_email", "score_lead", "launch_campaign"}] : n \in 0..MaxTools }

\* runAgent('marcus', ...) is called while the marcus row has any of these
\* tool lists
InitDecl ==
  /\ callers = {1}
  /\ \E tools \in ToolLists :
        store = [InitStore([n \in AgentNames |-> TRUE], <<>>)
                   EXCEPT !.agents["marcus"].tools = tools]
  /\ pc = [i \in Inv |-> IF i = 1 THEN "loadAgent" ELSE "idle"]
  /\ params = [i \in Inv |-> IF i = 1
                              THEN [entry |-> "runSpecificAgent",
                                    agentName |-> JsStr("marcus"), companyId |-> "c_mk",
                                    metadata |-> <<>>, conversationHistory |-> <<>>]
                              ELSE NoParams]
  /\ agent = [i \in Inv |-> <<>>]
  /\ InitLocals
  /\ QueueIdle("active")

\* runAgent
NextDecl ==
  \E i \in Inv :
     \/ LoadAgent(i)
     \/ LoadMemories(i)
     \/ BuildSystemPrompt(i)
     \/ ModelCall(i)
     \/ ExecTool(i)
     \/ LogActivity(i)

SpecDecl == InitDecl /\ [][NextDecl]_vars

\* ------------------------------------------- loadMemories on any memory
\* Rows an agent_memory table may hold: of the agent and either tenant or of
\* another agent, confidence below or at the floor, no expiry or any expiry
\* time.
MemRowChoices ==
  [p : {<<"marcus", "c_bh">>, <<"marcus", "c_mk">>, <<"atlas", "c_bh">>},
   conf : {29, 30}, expires : {<<>>} \cup {<<t>> : t \in Times}]

\* the tables of n rows, created in the order of the table
MemoryStores(n) ==
  { [k \in 1..n |-> MemoryRow(f[k].p[1], f[k].p[2], "fact", <<"m1", "m2", "m3", "m4">>[k],
                              f[k].conf, k, f[k].expires)] :
    f \in [1..n -> MemRowChoices] }

\* tables that reach the limit of the query: n rows of marcus for c_mk that
\* never expire, then e newer rows of the pair that expired at time 0
FullStores ==
  { [k \in 1..(n + e) |->
       MemoryRow("marcus", "c_mk", "fact", "m1", 100, k,
                 IF k <= n THEN <<>> ELSE <<0>>)] :
    n \in (MEMORY_LIMIT - 1)..(MEMORY_LIMIT + 1), e \in 0..2 }

\* runAgent('marcus', ...) for either tenant has loaded its agent and is
\* about to load its memories from a table of up to MaxMemRows rows, or from
\* one that reaches the limit
InitMemory ==
  /\ callers = {1}
  /\ \/ \E n \in 0..MaxMemRows : \E mem \in MemoryStores(n) :
           store = InitStore([a \in AgentNames |-> TRUE], mem)
     \/ \E mem \in FullStores :
           store = InitStore([a \in AgentNames |-> TRUE], mem)
  /\ pc = [i \in Inv |-> IF i = 1 THEN "loadMemories" ELSE "idle"]
  /\ \E c \in CompanyIds :
        params = [i \in Inv |-> IF i = 1
                                THEN [entry |-> "runSpecificAgent",
                                      agentName |-> JsStr("marcus"), companyId |-> c,
                                      metadata |-> <<>>,
                                      conversationHistory |-> <<>>]
                                ELSE NoParams]
  /\ agent = [i \in Inv |-> IF i = 1 THEN <<AgentRow("marcus", TRUE)>> ELSE <<>>]
  /\ InitLocals
  /\ QueueIdle("active")

NextMemory == \E i \in Inv : LoadMemories(i)

SpecMemory == InitMemory /\ [][NextMemory]_vars

\* ------------------------------------- caller-supplied metadata and history
\* handleMessage or runSpecificAgent('marcus', ...) is called for c_mk with
\* metadata (nothing, a key of the caller's own, or keys that runAgent also
\* writes) and with or without the two turns of an earlier exchange
InitMeta ==
  /\ callers = {1}
  /\ store = InitStore([n \in AgentNames |-> TRUE], <<>>)
  /\ \E e \in {"handleMessage", "runSpecificAgent"},
        md \in { <<>>, <<[source |-> "dashboard"]>>, <<[tools_used |-> <<"none">>]>>,
                 <<[source |-> "api", response_length |-> 0]>> },
        h \in { <<>>, <<[role |-> "user", content |-> <<Text(<<"q">>)>>],
                        [role |-> "assistant", content |-> <<Text(<<"r">>)>>]>> } :
        /\ pc = [i \in Inv |-> IF i = 1 THEN EntryPoint[e] ELSE "idle"]
        /\ params = [i \in Inv |->
              IF i = 1
              THEN [entry |-> e,
                    agentName |-> IF e = "runSpecificAgent" THEN JsStr("marcus")
                                  ELSE JsUndefined,
                    companyId |-> "c_mk", metadata |-> md,
                    conversationHistory |-> h]
              ELSE NoParams]
  /\ agent = [i \in Inv |-> <<>>]
  /\ InitLocals
  /\ QueueIdle("active")

\* handleMessage and runAgent
NextMeta ==
  \E i \in Inv :
     \/ RouteMessage(i)
     \/ LogRouting(i)
     \/ LoadAgent(i)
     \/ LoadMemories(i)
     \/ BuildSystemPrompt(i)
     \/ ModelCall(i)
     \/ ExecTool(i)
     \/ LogActivity(i)

SpecMeta == InitMeta /\ [][NextMeta]_vars

\* ========================================================= approval queue
\* how many approval-queue calls a run makes
MaxCalls == 3

\* what the approval-queue actions leave alone
agentVars == <<store, callers, pc, params, routerContent, routing, agent, memories,
               memLoad, systemPrompt, currentMessages, finalResponse, toolsUsed, round,
               response, pending, toolResults, lastCall, modelCalls, outcome, handler>>

\* [...history].reverse().find((e) => e.role === 'agent'), as a position; 0 if
\* there is none
LastAgentEntry(history) ==
  LET at == {k \in DOMAIN history : history[k].role = "agent"}
  IN IF at = {} THEN 0 ELSE CHOOSE k \in at : \A m \in at : m <= k

\* the call has returned or thrown; its locals are gone
Finish(i, result) == [NoOp EXCEPT !.kind = op[i].kind, !.pc = "done", !.result = result]

\* the dashboard (or the response generator, for a draft) calls one of the
\* exported operations on the conversation
StartOp(i) ==
  /\ op[i].pc \in {"idle", "done"}
  /\ Len(queueCalls) < MaxCalls
  /\ \E kind \in {"submitDraftResponse", "approveEmail", "rejectEmail",
                  "requestChangesEmail"} :
        /\ queueCalls' = Append(queueCalls, kind)
        /\ \E d \in IF kind = "submitDraftResponse" THEN {<<"d1">>, <<"d2">>} ELSE {<<>>},
              permanent \in IF kind = "rejectEmail" THEN BOOLEAN ELSE {FALSE} :
              op' = [op EXCEPT ![i] = [NoOp EXCEPT !.kind = kind, !.pc = "read",
                                                    !.draftBody = d,
                                                    !.permanent = permanent]]
  /\ UNCHANGED <<conversation, email_log, gmailSent>>
  /\ UNCHANGED agentVars

\* submitDraftResponse up to its update: the select, the not-found and the
\* status checks
SubmitRead(i) ==
  /\ op[i].kind = "submitDraftResponse"
  /\ op[i].pc = "read"
  /\ \/ op' = [op EXCEPT ![i] = Finish(i, "threw: not found")]
     \/ /\ conversation.status \notin {"active", "waiting_client"}
        /\ op' = [op EXCEPT ![i] = Finish(i, "threw: status")]
     \/ /\ conversation.status \in {"active", "waiting_client"}
        /\ op' = [op EXCEPT ![i].pc = "update", ![i].conversation = <<conversation>>]
  /\ UNCHANGED <<conversation, email_log, gmailSent, queueCalls>>
  /\ UNCHANGED agentVars

\* its update of status and history from what it read, and the notifications
\* it fires without waiting (no email among them)
SubmitUpdate(i) ==
  /\ op[i].kind = "submitDraftResponse"
  /\ op[i].pc = "update"
  /\ \/ /\ op' = [op EXCEPT ![i] = Finish(i, "threw: update")]
        /\ UNCHANGED conversation
     \/ /\ conversation' =
              [status |-> "waiting_approval",
               history |-> Append(op[i].conversation[1].history,
                                  HistoryEntry("agent", op[i].draftBody[1]))]
        /\ op' = [op EXCEPT ![i] = Finish(i, "returned")]
  /\ UNCHANGED <<email_log, gmailSent, queueCalls>>
  /\ UNCHANGED agentVars

\* approveEmail up to its first await after the select: not found, the
\* status check, the draft lookup and the refresh token
ApproveRead(i) ==
  /\ op[i].kind = "approveEmail"
  /\ op[i].pc = "read"
  /\ \/ op' = [op EXCEPT ![i] = Finish(i, "threw: not found")]
     \/ /\ conversation.status # "waiting_approval"
        /\ op' = [op EXCEPT ![i] = Finish(i, "threw: status")]
     \/ /\ conversation.status = "waiting_approval"
        /\ LastAgentEntry(conversation.history) = 0
        /\ op' = [op EXCEPT ![i] = Finish(i, "threw: no draft")]
     \/ /\ conversation.status = "waiting_approval"
        /\ LastAgentEntry(conversation.history) # 0
        /\ \/ op' = [op EXCEPT ![i] = Finish(i, "threw: no token")]
           \/ op' = [op EXCEPT ![i].pc = "lookup", ![i].conversation = <<conversation>>]
  /\ UNCHANGED <<conversation, email_log, gmailSent, queueCalls>>
  /\ UNCHANGED agentVars

\* the lookup of the last inbound message for threading; its error is not read
ApproveLookup(i) ==
  /\ op[i].kind = "approveEmail"
  /\ op[i].pc = "lookup"
  /\ LET inbound == {k \in DOMAIN email_log : email_log[k].direction = "inbound"}
         last == CHOOSE k \in inbound : \A m \in inbound : m <= k
     IN \E lastInbound \in {<<>>} \cup
                           (IF inbound = {} THEN {}
                            ELSE {<<email_log[last].gmail_message_id>>}) :
           op' = [op EXCEPT ![i].pc = "send", ![i].inReplyTo = lastInbound]
  /\ UNCHANGED <<conversation, email_log, gmailSent, queueCalls>>
  /\ UNCHANGED agentVars

\* sendEmail with the draft that was read; Gmail may refuse
ApproveSend(i) ==
  /\ op[i].kind = "approveEmail"
  /\ op[i].pc = "send"
  /\ LET history == op[i].conversation[1].history
         lastAgentEntry == history[LastAgentEntry(history)]
     IN \/ /\ op' = [op EXCEPT ![i] = Finish(i, "threw: send")]
           /\ UNCHANGED gmailSent
        \/ /\ gmailSent' = Append(gmailSent, [to |-> "client",
                                              body |-> lastAgentEntry.content,
                                              in_reply_to |-> op[i].inReplyTo])
           /\ op' = [op EXCEPT ![i].pc = "log",
                               ![i].sendResult = <<Len(gmailSent) + 1>>]
  /\ UNCHANGED <<conversation, email_log, queueCalls>>
  /\ UNCHANGED agentVars

\* the insert of the outbound email_log row; a failed insert leaves
\* insertedLog null
ApproveLog(i) ==
  /\ op[i].kind = "approveEmail"
  /\ op[i].pc = "log"
  /\ LET history == op[i].conversation[1].history
         lastAgentEntry == history[LastAgentEntry(history)]
     IN \/ /\ op' = [op EXCEPT ![i].pc = "update"]
           /\ UNCHANGED email_log
        \/ /\ email_log' = Append(email_log,
                                  [direction |-> "outbound",
                                   gmail_message_id |-> op[i].sendResult[1],
                                   body |-> lastAgentEntry.content])
           /\ op' = [op EXCEPT ![i].pc = "update",
                               ![i].insertedLog = <<Len(email_log) + 1>>]
  /\ UNCHANGED <<conversation, gmailSent, queueCalls>>
  /\ UNCHANGED agentVars

\* the update to waiting_client with the history that was read; its result is
\* not looked at
ApproveUpdate(i) ==
  /\ op[i].kind = "approveEmail"
  /\ op[i].pc = "update"
  /\ LET history == op[i].conversation[1].history
         at == LastAgentEntry(history)
         updatedHistory ==
           IF op[i].insertedLog # <<>>
           THEN [history EXCEPT ![at].email_log_id = op[i].insertedLog[1]]
           ELSE history
     IN \/ UNCHANGED conversation
        \/ conversation' = [status |-> "waiting_client", history |-> updatedHistory]
  /\ op' = [op EXCEPT ![i] = Finish(i, "returned")]
  /\ UNCHANGED <<email_log, gmailSent, queueCalls>>
  /\ UNCHANGED agentVars

\* rejectEmail up to its update
RejectRead(i) ==
  /\ op[i].kind = "rejectEmail"
  /\ op[i].pc = "read"
  /\ \/ op' = [op EXCEPT ![i] = Finish(i, "threw: not found")]
     \/ /\ conversation.status # "waiting_approval"
        /\ op' = [op EXCEPT ![i] = Finish(i, "threw: status")]
     \/ /\ conversation.status = "waiting_approval"
        /\ op' = [op EXCEPT ![i].pc = "update", ![i].conversation = <<conversation>>]
  /\ UNCHANGED <<conversation, email_log, gmailSent, queueCalls>>
  /\ UNCHANGED agentVars

\* its update to completed or active; the result is not looked at
RejectUpdate(i) ==
  /\ op[i].kind = "rejectEmail"
  /\ op[i].pc = "update"
  /\ \/ UNCHANGED conversation
     \/ conversation' =
           [status |-> IF op[i].permanent THEN "completed" ELSE "active",
            history |-> Append(op[i].conversation[1].history,
                               HistoryEntry("system", "[REJECTED]"))]
  /\ op' = [op EXCEPT ![i] = Finish(i, "returned")]
  /\ UNCHANGED <<email_log, gmailSent, queueCalls>>
  /\ UNCHANGED agentVars

\* requestChangesEmail up to its update
ChangesRead(i) ==
  /\ op[i].kind = "requestChangesEmail"
  /\ op[i].pc = "read"
  /\ \/ op' = [op EXCEPT ![i] = Finish(i, "threw: not found")]
     \/ /\ conversation.status # "waiting_approval"
        /\ op' = [op EXCEPT ![i] = Finish(i, "threw: status")]
     \/ /\ conversation.status = "waiting_approval"
        /\ op' = [op EXCEPT ![i].pc = "update", ![i].conversation = <<conversation>>]
  /\ UNCHANGED <<conversation, email_log, gmailSent, queueCalls>>
  /\ UNCHANGED agentVars

\* its update to active; the result is not looked at
ChangesUpdate(i) ==
  /\ op[i].kind = "requestChangesEmail"
  /\ op[i].pc = "update"
  /\ \/ UNCHANGED conversation
     \/ conversation' =
           [status |-> "active",
            history |-> Append(op[i].conversation[1].history,
                               HistoryEntry("system", "[CHANGES REQUESTED]"))]
  /\ op' = [op EXCEPT ![i] = Finish(i, "returned")]
  /\ UNCHANGED <<email_log, gmailSent, queueCalls>>
  /\ UNCHANGED agentVars

\* a conversation that requires a response or was ignored; no agent runs
InitApproval ==
  /\ callers = {}
  /\ store = InitStore([n \in AgentNames |-> TRUE], <<>>)
  /\ InitInv
  /\ \E status \in {"active", "ignored"} : QueueIdle(status)

\* the calls of the operators, interleaved at their awaits
NextApproval ==
  \E i \in Inv :
     \/ StartOp(i)
     \/ SubmitRead(i)
     \/ SubmitUpdate(i)
     \/ ApproveRead(i)
     \/ ApproveLookup(i)
     \/ ApproveSend(i)
     \/ ApproveLog(i)
     \/ ApproveUpdate(i)
     \/ RejectRead(i)
     \/ RejectUpdate(i)
     \/ ChangesRead(i)
     \/ ChangesUpdate(i)

SpecApproval == InitApproval /\ [][NextApproval]_vars

\* ================================================================ claims
\* the rows of agent_activity written on behalf of invocation i
OwnRows(i, actionType) ==
  {k \in 1..Len(store.agent_activity) :
     /\ store.agent_activity[k].inv = i
     /\ store.agent_activity[k].action_type = actionType}

\* the tool requests of the response invocation i is processing
Uses(i) == SelectSeqBy(response[i].content, "tool_use")

\* C1: whenever the model requests a tool that is not in the agent's
\* configured tool list, the request's tool result is the not-found error
\* (so the tool's handler has not run), registered for other agents or not.
C1_UnconfiguredToolNotFound ==
  \A i \in Inv : \A k \in 1..Len(toolResults[i]) :
     Uses(i)[k].name \notin Range(agent[i][1].tools)
       => toolResults[i][k].content = NotFoundResult(Uses(i)[k].name)

\* C2: approval gate.  Every notification a tool leaves is addressed to the
\* operator, and every content item and follow-up is in a draft or
\* pending-approval status, never client-addressed or already scheduled.
C2_ApprovalGate ==
  /\ \A k \in 1..Len(store.notifications) :
        store.notifications[k].recipient_type = "brian"
  /\ \A k \in 1..Len(store.content_calendar) :
        store.content_calendar[k].status \in {"draft", "pending_approval"}
  /\ \A k \in 1..Len(store.followup_sequences) :
        store.followup_sequences[k].status \in {"draft", "pending_approval"}

\* C3: runAgent makes at most 10 model calls; when ten responses in a row
\* requested tools the loop is over, the call returns (it does not throw) the
\* text accumulated so far, and the activity row it wrote carries its tools.
C3_RoundCap ==
  \A i \in Inv :
     /\ modelCalls[i] <= 10
     /\ round[i] <= 10
     /\ round[i] = 10 =>
          /\ modelCalls[i] = 10
          /\ pc[i] \in {"logActivity", "done"}
          /\ pc[i] = "done" =>
               /\ outcome[i].kind = "returned"
               /\ outcome[i].response = finalResponse[i]
               /\ outcome[i].activityId # 0 =>
                    /\ outcome[i].activityId \in OwnRows(i, "chat_response")
                    /\ store.agent_activity[outcome[i].activityId].metadata.tools_used
                         = toolsUsed[i]

\* C3 witness: the cap was reached after ten rounds of tools and the call
\* returned
C3_Witness ==
  \E i \in Inv :
     /\ round[i] = 10
     /\ Len(toolsUsed[i]) >= 10
     /\ pc[i] = "done"
     /\ outcome[i].kind = "returned"
     /\ outcome[i].activityId # 0

\* the response being processed requests no tool
NoToolRequests(i) == response[i] # NoResponse /\ Len(Uses(i)) = 0

C4_State ==
  \A i \in Inv :
     NoToolRequests(i) =>
       /\ pc[i] \in {"logActivity", "done"}
       /\ modelCalls[i] = 1 =>
            LET text == Join(TextsOf(SelectSeqBy(response[i].content, "text")))
            IN  /\ toolsUsed[i] = <<>>
                /\ finalResponse[i] = text
                /\ pc[i] = "done" =>
                     /\ outcome[i].kind = "returned"
                     /\ outcome[i].response = text
                     /\ outcome[i].toolsUsed = <<>>

C4_Step ==
  \A i \in Inv :
     NoToolRequests(i) =>
       /\ modelCalls'[i] = modelCalls[i]
       /\ toolsUsed'[i] = toolsUsed[i]

\* C4: a response without tool requests ends the loop in that round: no
\* further model call and no tool execution follow; when it is the first
\* response, one model call was made, toolsUsed is empty and the returned
\* text is that response's text.
C4_NoToolsTerminates == []C4_State /\ [][C4_Step]_vars

\* C4 witness: the first response carried text only and the call returned it
C4_Witness ==
  \E i \in Inv :
     /\ NoToolRequests(i)
     /\ modelCalls[i] = 1
     /\ pc[i] = "done"
     /\ outcome[i].kind = "returned"
     /\ Len(outcome[i].response) > 0

\* a request whose handler throws: generate_proposal joins input.services
ThrowsOn(use) == use.name = "generate_proposal" /\ ~Has(use.input, "services")

\* C5: no exception of the dispatch reaches the loop.  The result of a
\* request for an unregistered name is the not-found error, the result of a
\* request whose handler throws is the execution-failed error; every request
\* of the round gets its result, in order and under its id, and once the
\* round is over these results are the last turn of the transcript.
C5_DispatchNeverThrows ==
  \A i \in Inv :
     /\ outcome[i].kind = "threw" => outcome[i].error \in {"transport", "not_found"}
     /\ \A k \in 1..Len(toolResults[i]) :
          /\ toolResults[i][k].tool_use_id = Uses(i)[k].id
          /\ Uses(i)[k].name \notin definitions
               => toolResults[i][k].content = NotFoundResult(Uses(i)[k].name)
          /\ ThrowsOn(Uses(i)[k])
               => toolResults[i][k].content = ExecFailedResult("TypeError")
     /\ (pc[i] # "executingTools" /\ Len(Uses(i)) > 0) =>
          /\ Len(toolResults[i]) = Len(Uses(i))
          /\ currentMessages[i][Len(currentMessages[i])]
               = [role |-> "user", content |-> toolResults[i]]
          /\ currentMessages[i][Len(currentMessages[i]) - 1]
               = [role |-> "assistant", content |-> response[i].content]

\* C5 witness: a handler threw, the next request of the round was still
\* executed, and the loop went on to the next model call
C5_Witness ==
  \E i \in Inv :
     /\ pc[i] = "awaitingModel"
     /\ Len(toolResults[i]) = 2
     /\ toolResults[i][1].content = ExecFailedResult("TypeError")
     /\ toolResults[i][2].content = Status("lead_updated")

\* the model call of some round of runAgent failed
ModelCallFailed(i) ==
  /\ outcome[i].kind = "threw"
  /\ outcome[i].error = "transport"
  /\ modelCalls[i] > 0

C6_State ==
  \A i \in Inv :
     ModelCallFailed(i) => pc[i] = "done" /\ OwnRows(i, "chat_response") = {}

C6_Step ==
  \A i \in Inv :
     ModelCallFailed(i) =>
       /\ modelCalls'[i] = modelCalls[i]
       /\ toolsUsed'[i] = toolsUsed[i]
       /\ outcome'[i] = outcome[i]
       /\ \A k \in 1..Len(store'.agent_activity) :
             store'.agent_activity[k].inv = i => k <= Len(store.agent_activity)

\* C6: a failed model call of any round ends the invocation with that
\* failure: no later model call, tool execution or activity row of the
\* invocation, and no chat_response row of it at all.
C6_ModelFailureAborts == []C6_State /\ [][C6_Step]_vars

\* C6 witness: the tenth model call failed after nine rounds of tools
C6_Witness ==
  \E i \in Inv :
     /\ ModelCallFailed(i)
     /\ modelCalls[i] = 10
     /\ Len(toolsUsed[i]) = 9

\* C7: an invocation that returned has written exactly one chat_response row
C7_ExactlyOneRecord ==
  \A i \in Inv :
     outcome[i].kind = "returned" => Cardinality(OwnRows(i, "chat_response")) = 1

\* the first text block holds, fenced or not, one JSON object with a string
\* target_agent, a string reasoning and a numeric confidence
ParsesAsDecision(content) ==
  LET textBlocks == SelectSeqBy(content, "text")
      inner == IF Len(textBlocks) = 0 THEN <<>> ELSE Clean(textBlocks[1].text)
  IN  /\ Len(inner) = 1
      /\ inner[1].tok = "json"
      /\ inner[1].value.kind = "object"
      /\ {"target_agent", "reasoning", "confidence"} \subseteq DOMAIN inner[1].value.fields
      /\ inner[1].value.fields.target_agent.t = "string"
      /\ inner[1].value.fields.reasoning.t = "string"
      /\ inner[1].value.fields.confidence.t = "number"

\* C8: when the routing answer has no text block or its text is not the
\* JSON object {target_agent, reasoning, confidence}, routeMessage returns
\* atlas with confidence 0.5 and one of its fixed reasoning strings.
C8_RouteFallback ==
  \A i \in Inv :
     (pc[i] = "logRouting" /\ ~ParsesAsDecision(routerContent[i]))
        => routing[i] \in {ATLAS_FALLBACK_NO_TEXT, ATLAS_FALLBACK_PARSE}

\* C9: with atlas active, a handleMessage call fails only for a transport
\* or store failure, never for what the routing model answered.
C9_RoutingAbsorbed ==
  \A i \in Inv :
     (/\ params[i].entry = "handleMessage"
      /\ store.agents["atlas"].is_active
      /\ outcome[i].kind = "threw")
        => outcome[i].cause \in {"transport", "store_error"}

\* C10: every model call of an invocation for a bh_center tenant is given an
\* instruction block whose last section is the HIPAA reminder.
C10_HipaaReminderLast ==
  \A i \in Inv :
     (lastCall[i] # <<>> /\ CompanyType[params[i].companyId] = "bh_center")
        => /\ Len(lastCall[i][1].system) > 0
           /\ lastCall[i][1].system[Len(lastCall[i][1].system)] = HIPAA_REMINDER

\* the rows of the table that loadMemories may return to invocation i
Eligible(i, m) ==
  /\ m.agent_id = agent[i][1].id
  /\ m.company_id = params[i].companyId
  /\ m.confidence >= 30

\* C11: loadMemories returns only rows of the table that belong to the
\* (agent, tenant) pair, have confidence at least 0.3 and have no expiry or
\* an expiry later than the time of the call; a row of the pair at or above
\* the floor that has no expiry is returned whenever the query succeeds and
\* matches no more rows than the limit.
C11_LoadMemoriesFilter ==
  \A i \in Inv :
     memLoad[i].done =>
       /\ \A k \in 1..Len(memories[i]) :
             LET m == memories[i][k]
             IN  /\ m \in Range(store.agent_memory)
                 /\ Eligible(i, m)
                 /\ m.expires_at = <<>> \/ m.expires_at[1] > memLoad[i].called
       /\ (/\ ~memLoad[i].failed
           /\ Cardinality({k \in 1..Len(store.agent_memory) :
                               Eligible(i, store.agent_memory[k])}) <= 50)
            => \A k \in 1..Len(store.agent_memory) :
                  LET m == store.agent_memory[k]
                  IN  (Eligible(i, m) /\ m.expires_at = <<>>)
                         => m \in Range(memories[i])

\* C11 witness: the table holds a row of the pair that has expired by the
\* time of the call and a row of the pair without expiry; exactly the second
\* one is returned
C11_Witness ==
  \E i \in Inv :
     /\ memLoad[i].done
     /\ ~memLoad[i].failed
     /\ Len(memories[i]) = 1
     /\ memories[i][1].expires_at = <<>>
     /\ \E k \in 1..Len(store.agent_memory) :
           LET m == store.agent_memory[k]
           IN  /\ Eligible(i, m)
               /\ m.expires_at # <<>>
               /\ m.expires_at[1] <= memLoad[i].called

\* the rows of agent_memory in table mem with the key of request use of
\* invocation i
SameKey(mem, i, use) ==
  {k \in 1..Len(mem) :
     /\ mem[k].agent_id = agent[i][1].id
     /\ mem[k].company_id = params[i].companyId
     /\ mem[k].content = use.input.content}

\* the next tool call of invocation i is a save_memory
SavesNext(i) ==
  /\ pc[i] = "executingTools"
  /\ Len(pending[i]) > 0
  /\ Head(pending[i]).name = "save_memory"

C12_State ==
  /\ \A k, l \in 1..Len(store.agent_memory) :
        (/\ store.agent_memory[k].agent_id = store.agent_memory[l].agent_id
         /\ store.agent_memory[k].company_id = store.agent_memory[l].company_id
         /\ store.agent_memory[k].content = store.agent_memory[l].content) => k = l
  /\ \A i \in Inv : \A k \in 1..Len(toolResults[i]) :
        Uses(i)[k].name = "save_memory" =>
          /\ toolResults[i][k].content
                \in {Status("memory_saved"), Status("already_remembered"), StoreError}
          /\ toolResults[i][k].content # StoreError
                => Cardinality(SameKey(store.agent_memory, i, Uses(i)[k])) = 1

C12_Step ==
  \A i \in Inv :
     (/\ SavesNext(i)
      /\ SameKey(store.agent_memory, i, Head(pending[i])) # {}
      /\ toolsUsed'[i] # toolsUsed[i])
        => /\ store' = store
           /\ toolResults'[i][Len(toolResults'[i])].content
                 \in {Status("already_remembered"), StoreError}

\* C12: agent_memory never holds two rows with the same agent, tenant and
\* content.  A save_memory whose key is already in the table, written by
\* this or by another invocation, leaves the table as it is and is answered
\* with already_remembered (or with the message of a store that failed),
\* never with the duplicate as an error; after an answered save_memory
\* exactly one row has its key.
C12_SaveMemoryIdempotent == []C12_State /\ [][C12_Step]_vars

\* C12 witness: two invocations for the same tenant saved the same content,
\* one was answered memory_saved and the other already_remembered
C12_Witness ==
  \E i, j \in Inv :
     /\ i # j
     /\ params[i].companyId = params[j].companyId
     /\ Len(toolResults[i]) > 0 /\ Len(toolResults[j]) > 0
     /\ Uses(i)[1].input.content = Uses(j)[1].input.content
     /\ toolResults[i][1].content = Status("memory_saved")
     /\ toolResults[j][1].content = Status("already_remembered")

\* the routing model call of handleMessage failed: runAgent was not called
RoutingFailed(i) ==
  /\ params[i].entry = "handleMessage"
  /\ outcome[i] = Threw("transport", "transport")
  /\ modelCalls[i] = 0

\* invocation i has called runAgent, which has passed its loadAgent
Loaded(i) ==
  /\ params[i].entry \in {"handleMessage", "runSpecificAgent"}
  /\ pc[i] \notin {"idle", "routing", "logRouting", "loadAgent"}
  /\ ~RoutingFailed(i)

\* name is the name of an active row of the agents table
ActiveName(name) ==
  /\ name.t = "string"
  /\ name.v \in DOMAIN store.agents
  /\ store.agents[name.v].is_active

\* C13: a runAgent call for a name that is absent or inactive ends with the
\* not-found error, having made no model call, run no tool and written no
\* activity row of its own; the agent a call runs with is the active row of
\* the name asked for; getAgent and listAgents return active rows only, and
\* getAgent returns null for an absent or inactive name.
C13_InactiveNotFound ==
  \A i \in Inv :
     /\ (Loaded(i) /\ ~ActiveName(params[i].agentName)) =>
           /\ pc[i] = "done"
           /\ outcome[i].kind = "threw" /\ outcome[i].error = "not_found"
           /\ agent[i] = <<>>
           /\ modelCalls[i] = 0
           /\ toolsUsed[i] = <<>>
           /\ OwnRows(i, "chat_response") = {}
           /\ OwnRows(i, "route_to_agent") = {}
     /\ agent[i] # <<>> =>
           /\ agent[i][1].is_active
           /\ agent[i][1] = store.agents[params[i].agentName.v]
     /\ outcome[i].kind = "agent" =>
           /\ ~ActiveName(params[i].agentName) => outcome[i].value = <<>>
           /\ outcome[i].value # <<>> =>
                 /\ outcome[i].value[1].is_active
                 /\ outcome[i].value[1].name = params[i].agentName.v
     /\ outcome[i].kind = "agents" =>
           \A k \in 1..Len(outcome[i].value) : outcome[i].value[k].is_active

\* C13 witness: runAgent was called for the deactivated agent mia and threw
\* the not-found error
C13_Witness ==
  \E i \in Inv :
     /\ params[i].entry = "runSpecificAgent"
     /\ params[i].agentName = JsStr("mia")
     /\ ~store.agents["mia"].is_active
     /\ pc[i] = "done"
     /\ outcome[i] = Threw("not_found", "no_row")

\* invocation i is a handleMessage call whose routing step is over
Routed(i) ==
  /\ params[i].entry = "handleMessage"
  /\ pc[i] \notin {"idle", "routing", "logRouting"}
  /\ ~RoutingFailed(i)

\* C14: a handleMessage call whose router call returned has written, before
\* runAgent is called for the target agent, exactly one message_routed
\* activity row, which carries the target agent, reasoning and confidence
\* of the routing decision; none is written before the router call returns.
C14_OneRoutingRecord ==
  \A i \in Inv :
     /\ Routed(i) =>
           /\ Cardinality(OwnRows(i, "message_routed")) = 1
           /\ \A k \in OwnRows(i, "message_routed") :
                 store.agent_activity[k].metadata =
                    [target_agent |-> routing[i].targetAgent,
                     reasoning |-> routing[i].reasoning,
                     confidence |-> routing[i].confidence]
     /\ pc[i] \in {"idle", "routing", "logRouting"} => OwnRows(i, "message_routed") = {}

\* the composed prompt of invocation i has no Current Context section: the
\* companies lookup came back without the row
LookupFailed(i) ==
  /\ systemPrompt[i] # <<>>
  /\ \A k \in 1..Len(systemPrompt[i]) : systemPrompt[i][k].section # "context"

\* the insert of logActivity failed: runAgent returned the empty id
AppendFailed(i) == outcome[i].kind = "returned" /\ outcome[i].activityId = 0

\* C15: an invocation in which the memory query, the companies lookup or
\* the insert of the activity row failed is over with an exception for its
\* caller, has returned no result and has written no chat_response row.
C15_StoreFailureFatal ==
  \A i \in Inv :
     (memLoad[i].failed \/ LookupFailed(i) \/ AppendFailed(i)) =>
        /\ pc[i] = "done"
        /\ outcome[i].kind = "threw"
        /\ OwnRows(i, "chat_response") = {}

\* no call has been made for tenant c
Untouched(c) == \A i \in Inv : params[i].companyId # c

\* the rows of table tbl that belong to tenant c are the rows seed
SameRows(tbl, seed, c) ==
  /\ \A k \in 1..Len(seed) : seed[k].company_id = c => tbl[k] = seed[k]
  /\ \A k \in 1..Len(tbl) : tbl[k].company_id = c => k <= Len(seed)

\* C17: whatever tools run, with whatever arguments, the leads, tasks,
\* content items and reviews of a tenant for which no call was made are the
\* rows it had, and no follow-up or notification is created for it.
C17_TenantScoped ==
  \A c \in CompanyIds :
     Untouched(c) =>
       /\ SameRows(store.leads, SeedLeads, c)
       /\ SameRows(store.tasks, SeedTasks, c)
       /\ SameRows(store.content_calendar, SeedContent, c)
       /\ SameRows(store.reviews, SeedReviews, c)
       /\ \A k \in 1..Len(store.followup_sequences) :
             store.followup_sequences[k].company_id # c
       /\ \A k \in 1..Len(store.notifications) :
             store.notifications[k].company_id # c

\* C19: the RouteResult of every routing call that returned has a target
\* agent that is a non-empty string, a reasoning that is a string and a
\* confidence that is a number between 0 and 1.
C19_RouteResultWellFormed ==
  \A i \in Inv :
     pc[i] = "logRouting" =>
        /\ routing[i].targetAgent.t = "string"
        /\ routing[i].targetAgent.v # ""
        /\ routing[i].reasoning.t = "string"
        /\ routing[i].confidence.t = "number"
        /\ routing[i].confidence.v \in 0..100

\* invocation i executes, in this step, the last tool call of a round whose
\* response requested tools and signalled end_turn
EndTurnRoundEnds(i) ==
  /\ pc[i] = "executingTools"
  /\ Len(pending[i]) = 1
  /\ response[i].stop_reason = "end_turn"
  /\ toolsUsed'[i] # toolsUsed[i]

C20_Step ==
  \A i \in Inv :
     /\ (EndTurnRoundEnds(i) /\ finalResponse[i] # <<>>) =>
           /\ pc'[i] = "logActivity"
           /\ round'[i] = round[i]
     /\ (EndTurnRoundEnds(i) /\ finalResponse[i] = <<>> /\ round[i] < 9) =>
           /\ pc'[i] = "awaitingModel"
           /\ round'[i] = round[i] + 1
     /\ pc[i] \in {"logActivity", "done"} =>
           /\ modelCalls'[i] = modelCalls[i]
           /\ pc'[i] \in {"logActivity", "done"}

\* C20: when the last tool call of a round is done and the round's response
\* signalled end_turn, the loop is left for the activity log if text has
\* accumulated (in this or an earlier round), and no model call follows;
\* if no text has accumulated the loop goes on to its next round (short of
\* the round cap).
C20_EndTurnWithText == [][C20_Step]_vars

\* C20 witness: text came in round 1, tools with end_turn and no text in
\* round 2, and the loop was left after that round with two model calls
C20_Witness ==
  \E i \in Inv :
     /\ pc[i] = "logActivity"
     /\ round[i] = 1
     /\ modelCalls[i] = 2
     /\ response[i].stop_reason = "end_turn"
     /\ Len(Uses(i)) > 0
     /\ SelectSeqBy(response[i].content, "text") = <<>>
     /\ finalResponse[i] # <<>>

RECURSIVE Intersect(_, _)
\* the names of seq that are in set, in the order of seq
Intersect(seq, set) ==
  IF Len(seq) = 0 THEN <<>>
  ELSE IF seq[1] \in set THEN <<seq[1]>> \o Intersect(Tail(seq), set)
  ELSE Intersect(Tail(seq), set)

Sends == gmailSent' # gmailSent

\* at such a step an approveEmail call is the sender, the conversation is in
\* status waiting_approval, and the message is its latest draft, with no
\* rejection or change request after it
C18_Step ==
  Sends =>
    /\ \E i \in Inv : /\ op[i].kind = "approveEmail"
                      /\ op'[i] # op[i]
    /\ conversation.status = "waiting_approval"
    /\ LET at == LastAgentEntry(conversation.history)
       IN /\ at # 0
          /\ conversation.history[at].content = gmailSent'[Len(gmailSent')].body
          /\ \A k \in DOMAIN conversation.history :
                k > at => conversation.history[k].role # "system"

\* C18: an outbound email of a conversation is sent only by the approve
\* action and only while the conversation is in status waiting_approval, that
\* is for a submitted draft that has not since been approved, rejected or
\* sent back for changes; submitting, rejecting and requesting changes never
\* send an email.
C18_SentOnlyWhileAwaitingApproval == [][C18_Step]_vars

\* the contents of the model responses invocation i has received so far, in
\* order: the assistant turns of its transcript, then the response it is
\* processing (which is the last of those turns once its round is over)
ResponsesOf(i) ==
  LET turns == currentMessages[i]
      RECURSIVE Assistant(_)
      Assistant(k) ==
        IF k > Len(turns) THEN <<>>
        ELSE IF turns[k].role = "assistant" THEN <<turns[k].content>> \o Assistant(k + 1)
        ELSE Assistant(k + 1)
  IN Assistant(1) \o <<response[i].content>>

\* the joined text blocks of the most recent of these contents that has a
\* text block; the empty string if none has
LatestText(contents) ==
  LET with == {k \in DOMAIN contents : SelectSeqBy(contents[k], "text") # <<>>}
  IN IF with = {} THEN <<>>
     ELSE LET k == CHOOSE m \in with : \A n \in with : n <= m
          IN Join(TextsOf(SelectSeqBy(contents[k], "text")))

\* the response has text and tool requests, its tools have been executed and
\* nothing was thrown
TextAndToolsRoundOver(i) ==
  /\ SelectSeqBy(response[i].content, "text") # <<>>
  /\ Len(Uses(i)) > 0
  /\ pending[i] = <<>>
  /\ outcome[i].kind # "threw"

\* the retained text is that of the latest response with text, and it is
\* what a returning call returns
TextRetained(i) ==
  /\ finalResponse[i] = LatestText(ResponsesOf(i))
  /\ outcome[i].kind = "returned" => outcome[i].response = LatestText(ResponsesOf(i))

\* C21 as stated: a response with text and tool requests keeps its text and
\* the loop continues with another model call; the call returns the text of
\* the most recent response that had text, or the empty string, and a later
\* response without text does not erase it.
C21_TextRetainedLoopContinues ==
  \A i \in Inv :
     /\ TextRetained(i)
     /\ TextAndToolsRoundOver(i) => pc[i] = "awaitingModel"

\* C21 as amended: the same, where the loop continues unless the response
\* signalled end_turn and text has accumulated, or the round was the tenth.
C21_TextRetained ==
  \A i \in Inv :
     /\ TextRetained(i)
     /\ Len(Uses(i)) > 0 /\ pending[i] # <<>> /\ outcome[i].kind # "threw"
          => pc[i] = "executingTools"
     /\ TextAndToolsRoundOver(i) =>
          \/ pc[i] = "awaitingModel"
          \/ response[i].stop_reason = "end_turn" /\ finalResponse[i] # <<>>
          \/ round[i] = MAX_TOOL_ROUNDS

\* C21 witness: a call returned the text of its first response, which came
\* with a tool request, after a second response that had no text
C21_Witness ==
  \E i \in Inv :
     /\ outcome[i].kind = "returned"
     /\ SelectSeqBy(response[i].content, "text") = <<>>
     /\ Len(ResponsesOf(i)) >= 2
     /\ SelectSeqBy(ResponsesOf(i)[1], "text") # <<>>
     /\ SelectSeqBy(ResponsesOf(i)[1], "tool_use") # <<>>
     /\ outcome[i].response = Join(TextsOf(SelectSeqBy(ResponsesOf(i)[1], "text")))
     /\ outcome[i].response # <<>>

\* the names of the tool requests of a response content, in request order
NamesOf(content) ==
  LET uses == SelectSeqBy(content, "tool_use")
  IN [k \in 1..Len(uses) |-> uses[k].name]

RECURSIVE Flatten(_)
Flatten(seqs) == IF Len(seqs) = 0 THEN <<>> ELSE Head(seqs) \o Flatten(Tail(seqs))

\* the names requested by the responses whose round is over: the assistant
\* turns of the transcript
RequestedInRoundsOver(i) ==
  LET all == ResponsesOf(i)
  IN Flatten([k \in 1..Len(all) - 1 |-> NamesOf(all[k])])

\* C22: toolsUsed holds the names of the tool requests made so far, in
\* request order and one entry per request, failed and unknown tools
\* included: those of the rounds that are over, then those of the current
\* round whose tool has been called.  A call that returns has called every
\* request of every response and returns all their names.
C22_ToolsUsedIsRequests ==
  \A i \in Inv :
     /\ (pc[i] = "executingTools") =>
           toolsUsed[i] = RequestedInRoundsOver(i) \o
                          SubSeq(NamesOf(response[i].content), 1, Len(toolResults[i]))
     /\ (pc[i] \in {"awaitingModel", "logActivity"}) =>
           toolsUsed[i] = RequestedInRoundsOver(i)
     /\ outcome[i].kind = "returned" =>
           /\ pending[i] = <<>>
           /\ Len(Uses(i)) > 0 =>
                 ResponsesOf(i)[Len(ResponsesOf(i)) - 1] = response[i].content
           /\ outcome[i].toolsUsed = RequestedInRoundsOver(i)

\* C22 witness: a call returned after requests for an unknown tool, a tool
\* that is not configured, and the same tool twice
C22_Witness ==
  \E i \in Inv :
     /\ outcome[i].kind = "returned"
     /\ outcome[i].toolsUsed =
           <<"launch_campaign", "send_email", "check_page_speed", "check_page_speed">>

\* C23: the chat_response record of a call that returned carries the
\* returned toolsUsed list as tools_used, the length of the returned response
\* as response_length, and every key of the metadata the caller supplied,
\* whatever that metadata is.
C23_RecordCapturesOutcome ==
  \A i \in Inv :
     (outcome[i].kind = "returned" /\ outcome[i].activityId # 0) =>
        LET md == store.agent_activity[outcome[i].activityId].metadata
        IN /\ md["tools_used"] = outcome[i].toolsUsed
           /\ md["response_length"] = Len(outcome[i].response)
           /\ DOMAIN OrEmpty(params[i].metadata) \subseteq DOMAIN md


\* ---------------------------------------------------------------- C24
IsPrefix(s, t) == Len(s) <= Len(t) /\ SubSeq(t, 1, Len(s)) = s

\* the tool-result turn that answers content: one result per tool request,
\* in request order, each with the id of its request
AnswersRequests(turn, content) ==
  LET uses == SelectSeqBy(content, "tool_use")
  IN  /\ turn.role = "user"
      /\ Len(turn.content) = Len(uses)
      /\ \A k \in 1..Len(uses) :
            /\ turn.content[k].type = "tool_result"
            /\ turn.content[k].tool_use_id = uses[k].id

\* Claim C24: within one invocation the transcript only grows and is
\* ordered.  The first model call is sent the conversation history followed
\* by the new user message; every later model call is sent what the call
\* before it was sent, extended by exactly two turns: the assistant turn with
\* the response to that call, then one user turn with one tool result per
\* tool request of that response, in request order and with the ids of the
\* requests.  No step changes or removes a turn that is in the transcript.
C24_Step ==
  \A i \in Inv :
     /\ IsPrefix(currentMessages[i], currentMessages'[i])
     /\ modelCalls'[i] = modelCalls[i] + 1 =>
           LET sent == lastCall'[i][1].messages
               h == params[i].conversationHistory
           IN  IF lastCall[i] = <<>>
               THEN sent = h \o <<[role |-> "user", content |-> <<Text(<<"m">>)>>]>>
               ELSE LET before == lastCall[i][1].messages
                    IN  /\ Len(sent) = Len(before) + 2
                        /\ IsPrefix(before, sent)
                        /\ sent[Len(before) + 1] =
                              [role |-> "assistant", content |-> response[i].content]
                        /\ AnswersRequests(sent[Len(before) + 2], response[i].content)

C24_TranscriptOrdered == [][C24_Step]_vars

\* a second model call after a response with two tool requests, in a
\* conversation that came with a history: it is sent five turns, the last
\* with two results
C24_Witness ==
  \E i \in Inv :
     /\ modelCalls[i] = 2
     /\ params[i].conversationHistory # <<>>
     /\ Len(lastCall[i][1].messages) = 5
     /\ Len(lastCall[i][1].messages[5].content) = 2

\* ---------------------------------------------------------------- C25
\* the rows of the table that the filters of invocation i keep: of its
\* (agent, tenant) pair, at or above the confidence floor, and without an
\* expiry or with one after the time its filter read
Kept(i) ==
  {k \in 1..Len(store.agent_memory) :
     LET m == store.agent_memory[k]
     IN  /\ Eligible(i, m)
         /\ m.expires_at = <<>> \/ m.expires_at[1] > memLoad[i].now}

\* Claim C25: loadMemories applies its filters before its cap.  When the
\* query succeeds the result is the 50 newest, newest first, of the rows of
\* the (agent, tenant) pair with confidence at least 0.3 that have not
\* expired: all of them when there are at most 50, and exactly 50 when
\* there are more, whether or not newer expired rows exist.
C25_FiltersBeforeCap ==
  \A i \in Inv :
     (memLoad[i].done /\ ~memLoad[i].failed) =>
        LET mem == store.agent_memory
            kept == Kept(i)
            got == memories[i]
        IN  /\ Len(got) = IF Cardinality(kept) < 50 THEN Cardinality(kept) ELSE 50
            /\ \A k \in 1..Len(got) : \E j \in kept : mem[j] = got[k]
            /\ \A k \in 1..(Len(got) - 1) : got[k].created_at >= got[k + 1].created_at
            /\ \A j \in kept :
                  (\A k \in 1..Len(got) : got[k] # mem[j]) =>
                     \A k \in 1..Len(got) : got[k].created_at >= mem[j].created_at

\* ---------------------------------------------------------------- C26
\* the place of a section in the fixed order
SectionRank == [base |-> 1, context |-> 2, memories |-> 3, hipaa |-> 4]

\* the section of the block with this name, if any
SectionsNamed(block, name) == {k \in 1..Len(block) : block[k].section = name}

\* body is the memories grouped by type: one group per type that occurs, in
\* the order in which the types first occur, each with the contents of the
\* memories of its type in their order
GroupsOf(body, mems) ==
  LET first(t) == CHOOSE k \in 1..Len(mems) :
                     /\ mems[k].memory_type = t
                     /\ \A l \in 1..(k - 1) : mems[l].memory_type # t
  IN  /\ {body[g].type : g \in 1..Len(body)} = {mems[k].memory_type : k \in 1..Len(mems)}
      /\ \A g, h \in 1..Len(body) : g < h => first(body[g].type) < first(body[h].type)
      /\ \A g \in 1..Len(body) :
            LET of == {k \in 1..Len(mems) : mems[k].memory_type = body[g].type}
            IN  /\ Len(body[g].items) = Cardinality(of)
                /\ \A n \in 1..Len(body[g].items) :
                      \E k \in of :
                         /\ Cardinality({l \in of : l <= k}) = n
                         /\ body[g].items[n] = mems[k].content

\* Claim C26: the instruction block that buildSystemPrompt composes starts
\* with the base instructions and has its sections in the fixed order base,
\* current context, grouped memories, compliance reminder.  It has a memory
\* section exactly when loadMemories yielded items; the reminder occurs only
\* for a bh_center tenant and then as the last section; and every section is
\* determined by the inputs (the agent, the tenant, the date, the memories),
\* so that the same inputs give the same block.
C26_Step ==
  \A i \in Inv :
     (pc[i] = "buildSystemPrompt" /\ pc'[i] = "awaitingModel") =>
        LET block == systemPrompt'[i]
            c == params[i].companyId
        IN  /\ Len(block) > 0
            /\ block[1] = [section |-> "base", body |-> agent[i][1].system_prompt]
            /\ \A k \in 1..(Len(block) - 1) :
                  SectionRank[block[k].section] < SectionRank[block[k + 1].section]
            /\ (SectionsNamed(block, "memories") # {}) <=> (Len(memories[i]) > 0)
            /\ \A k \in SectionsNamed(block, "memories") : GroupsOf(block[k].body, memories[i])
            /\ \A k \in SectionsNamed(block, "context") :
                  block[k].body = [type |-> CompanyType[c], id |-> c, date |-> "today"]
            /\ \A k \in SectionsNamed(block, "hipaa") :
                  /\ CompanyType[c] = "bh_center"
                  /\ k = Len(block)
                  /\ block[k] = HIPAA_REMINDER

C26_PromptOrder == [][C26_Step]_vars

\* a block with all four sections: base, context, memories and, last, the
\* reminder
C26_Witness ==
  \E i \in Inv :
     /\ pc[i] = "awaitingModel"
     /\ Len(systemPrompt[i]) = 4
     /\ systemPrompt[i][3].section = "memories"
     /\ systemPrompt[i][4].section = "hipaa"

\* ---------------------------------------------------------------- C28
\* the loop of invocation i is over and runAgent has not thrown
LoopOver(i) ==
  \/ pc[i] = "logActivity"
  \/ pc[i] = "done" /\ outcome[i].kind = "returned"

\* the tool-result turns of the transcript: the batches of executed tools
Batches(i) ==
  {k \in 1..Len(currentMessages[i]) :
     /\ currentMessages[i][k].role = "user"
     /\ Len(currentMessages[i][k].content) > 0
     /\ currentMessages[i][k].content[1].type = "tool_result"}

\* Claim C28: when the loop is over, every tool request of the last response
\* has been executed, whatever stopped the loop: each has its result, their
\* names are the end of toolsUsed, and response and results are the last two
\* turns of the transcript, which no model call was sent.  The number of
\* executed batches is the number of model calls, less one when the last
\* response held no tool request.
C28_FinalRoundExecuted ==
  \A i \in Inv :
     (LoopOver(i) /\ modelCalls[i] > 0) =>
        LET uses == Uses(i)
            n == Len(uses)
            t == currentMessages[i]
            used == toolsUsed[i]
        IN  /\ pending[i] = <<>>
            /\ Cardinality(Batches(i)) = modelCalls[i] - (IF n = 0 THEN 1 ELSE 0)
            /\ n > 0 =>
                 /\ Len(toolResults[i]) = n
                 /\ \A k \in 1..n : toolResults[i][k].tool_use_id = uses[k].id
                 /\ Len(used) >= n
                 /\ \A k \in 1..n : used[Len(used) - n + k] = uses[k].name
                 /\ t[Len(t) - 1] = [role |-> "assistant", content |-> response[i].content]
                 /\ t[Len(t)] = [role |-> "user", content |-> toolResults[i]]
                 /\ Len(lastCall[i][1].messages) = Len(t) - 2

\* the round cap stopped the loop: ten model calls, ten batches, the tenth
\* never sent to the model
C28_Witness ==
  \E i \in Inv :
     /\ outcome[i].kind = "returned"
     /\ modelCalls[i] = MAX_TOOL_ROUNDS
     /\ Cardinality(Batches(i)) = modelCalls[i]
     /\ Len(lastCall[i][1].messages) < Len(currentMessages[i])

\* ---------------------------------------------------------------- C29
\* the calls of submitDraftResponse made so far
Submissions == {k \in 1..Len(queueCalls) : queueCalls[k] = "submitDraftResponse"}

\* Claim C29: each submitted draft is sent at most once, however approve,
\* reject and request-changes calls on the conversation interleave: Gmail is
\* never asked to send more messages than drafts were submitted.
C29_SentAtMostOnce == Len(gmailSent) <= Cardinality(Submissions)

\* ---------------------------------------------------------------- C27
\* the tool calls of invocation i that have started and not returned
InFlight(i) == Len(toolsUsed[i]) - Len(RequestedInRoundsOver(i)) - Len(toolResults[i])

\* Claim C27: within one invocation tool handlers never overlap.  While a
\* round runs at most one of its calls has started and not returned, the
\* calls start in the order of the requests and return in that order, each
\* under the id of its request; and when the round is over, so that the next
\* model call may start, every request has returned.
C27_HandlersNeverOverlap ==
  \A i \in Inv :
     IF pc[i] = "executingTools"
     THEN /\ InFlight(i) \in {0, 1}
          /\ Len(toolResults[i]) + Len(pending[i]) = Len(Uses(i))
          /\ \A k \in 1..Len(toolResults[i]) : toolResults[i][k].tool_use_id = Uses(i)[k].id
          /\ \A k \in 1..Len(pending[i]) :
                pending[i][k] = Uses(i)[Len(toolResults[i]) + k]
     ELSE handler[i] = NoHandler

\* every invocation has a handler between its awaits, and for one of them it
\* is the second call of its round, started after the first returned
C27_Witness ==
  /\ \A i \in Inv : pc[i] = "executingTools" /\ handler[i].pc # "idle"
  /\ \E i \in Inv : Len(toolResults[i]) = 1 /\ Len(toolsUsed[i]) = 2

\* ---------------------------------------------------------------- C30
\* the score_lead executions of invocation i that were given note n for the
\* lead and returned lead_updated
Noted(i, lead, n) ==
  {k \in 1..Len(toolResults[i]) :
     /\ Uses(i)[k].name = "score_lead"
     /\ Has(Uses(i)[k].input, "notes")
     /\ Uses(i)[k].input.notes = n
     /\ Uses(i)[k].input.lead_id = lead
     /\ toolResults[i][k].content = Status("lead_updated")}

RECURSIVE Sum(_, _)
Sum(f, S) == IF S = {} THEN 0 ELSE LET x == CHOOSE y \in S : TRUE
                                   IN  f[x] + Sum(f, S \ {x})

\* Claim C30: score_lead appends its note without losing any.  Once the
\* score_lead executions of all invocations have returned, the notes of the
\* lead hold one entry for every execution that was given a note, those of
\* concurrent invocations included.
C30_NoNoteLost ==
  (\A i \in Inv : pc[i] # "executingTools") =>
     \A lead \in DOMAIN store.leads : \A n \in {"n1", "n2"} :
        Cardinality({k \in 1..Len(store.leads[lead].notes) :
                        store.leads[lead].notes[k].note = n})
          = Sum([i \in Inv |-> Cardinality(Noted(i, lead, n))], Inv)
====
